---- MODULE Spec2Model ----
(***************************************************************************)
(* Screenboard: the interactive Session Controller (StudioController and   *)
(* the HTTP handlers of runStudioServer that drive it) and the batch       *)
(* capture run (runCapture).                                               *)
(*                                                                         *)
(* Every asynchronous operation is a task that advances from one `await`   *)
(* to the next: one action per request start (the synchronous code up to   *)
(* the first suspension) and one action per resolution of an awaited host  *)
(* call (the synchronous code up to the next suspension).  A host call     *)
(* resolves or rejects; the outcome is chosen by the environment.          *)
(***************************************************************************)
EXTENDS Integers, Sequences, FiniteSets, TLC

\* ------------------------------------------------------------------ bounds

MaxBrowsers == 2    \* browsers open, or closed and still referred to, at once
MaxContexts == 2    \* the same of browsing contexts
MaxProcs == 2       \* spawned application processes running at once
MaxSteps == 1       \* steps buffered in one recording
MaxPolls == 2       \* polls of baseUrl within the 60 s window
MaxInflight == 2    \* HTTP requests in flight at once
MaxOverlaps == 1    \* requests that arrive while another is in flight (SpecConc)
MaxScreens == 2     \* screens the live config lists (SpecScreens)
MaxFlows == 1       \* flows the live config lists (SpecFlows)
MaxClicks == 1      \* clicks of the user in one page (SpecRecorder)

\* ------------------------------------------------------------- the values

None == "none"                      \* undefined (a string, an id)
AppUrl == "http://app"
Paths == {"/a"}
FrameUrls == {AppUrl \o "/a", "about:blank"}   \* where an iframe navigates to

DEFAULT_VIEWPORT == [id |-> "desktop", width |-> 1280, height |-> 720]
DEFAULT_STATE == [id |-> "default", setup |-> FALSE]
Mobile == [id |-> "mobile", width |-> 390, height |-> 844]
Auth == [id |-> "auth", setup |-> TRUE]

\* A raw configuration: app.command (is one set), app.baseUrl, the lists.
\* An absent list and an empty list are both <<>>.
BaseConfigs ==
  { [command |-> cmd, baseUrl |-> IF cmd THEN AppUrl ELSE None,
     states |-> <<DEFAULT_STATE, Auth>>,
     viewports |-> <<DEFAULT_VIEWPORT, Mobile>>] : cmd \in BOOLEAN }

\* A JSON overlay sent with a request: which fields it defines, and whether it
\* passes the schema.  States of an overlay carry no setup hook.
NoOverlay == [present |-> FALSE, valid |-> TRUE, hasViewports |-> FALSE,
              viewports |-> <<>>, hasStates |-> FALSE, states |-> <<>>]
OvSwap == [NoOverlay EXCEPT !.present = TRUE, !.hasViewports = TRUE,
                            !.viewports = <<Mobile, DEFAULT_VIEWPORT>>]
OvBad == [NoOverlay EXCEPT !.present = TRUE, !.valid = FALSE]
Overlays == {NoOverlay, OvBad}
\* An overlay whose viewport list gives the default viewport another size.
OvResize == [NoOverlay EXCEPT
               !.present = TRUE, !.hasViewports = TRUE,
               !.viewports = <<[DEFAULT_VIEWPORT EXCEPT !.width = 1024,
                                                        !.height = 768],
                               Mobile>>]

\* A configuration that names no state and spawns nothing.
PlainConfig == [command |-> FALSE, baseUrl |-> None, states |-> <<>>,
                viewports |-> <<DEFAULT_VIEWPORT, Mobile>>]

ReqStateIds == {None, "auth"}
ReqViewportIds == {None, "mobile"}

\* ------------------------------------------------------------ pure helpers

\* config.ts normalizeConfig: an empty list becomes the single default.
normalizeConfig(cfg) ==
  [cfg EXCEPT
     !.viewports = IF Len(cfg.viewports) > 0 THEN cfg.viewports
                   ELSE <<DEFAULT_VIEWPORT>>,
     !.states = IF Len(cfg.states) > 0 THEN cfg.states ELSE <<DEFAULT_STATE>>]

\* studioServer.ts: currentConfig = { ...currentConfig, ...parsed }
SpreadOverlay(cfg, ov) ==
  [cfg EXCEPT
     !.viewports = IF ov.hasViewports THEN ov.viewports ELSE cfg.viewports,
     !.states = IF ov.hasStates THEN ov.states ELSE cfg.states]

\* Array.prototype.find(item => item.id === id) ?? list[0]
FindOrLast(list, id) ==
  IF \E i \in 1..Len(list) : list[i].id = id
  THEN list[CHOOSE i \in 1..Len(list) :
              /\ list[i].id = id
              /\ \A j \in 1..(i - 1) : list[j].id # id]
  ELSE list[Len(list)]

FindOrFirst(list, id) ==
  IF \E i \in 1..Len(list) : list[i].id = id
  THEN list[CHOOSE i \in 1..Len(list) :
              /\ list[i].id = id
              /\ \A j \in 1..(i - 1) : list[j].id # id]
  ELSE list[1]

getState(cfg, stateId) == FindOrFirst(cfg.states, stateId)

getViewport(cfg, viewportId) == FindOrFirst(cfg.viewports, viewportId)

\* utils.ts resolveUrl: without a baseUrl the url is used as it is.
resolveUrl(baseUrl, url) == IF baseUrl = None THEN url ELSE baseUrl \o url

\* waitForUrl: polls until one response is ok; the deadline passes otherwise.
\* answers[i] is response.ok of the i-th poll.
waitForUrl(answers) ==
  IF \E i \in 1..Len(answers) : answers[i] THEN "ok" ELSE "timeout"

PollAnswers == [1..MaxPolls -> BOOLEAN]

\* runner.ts waitForUrl: the same loop, with a logger.
runnerNeverTimesOut(answers) == "ok"

runnerWaitForUrl(answers) ==
  IF \E i \in 1..Len(answers) : answers[i] THEN "ok" ELSE "timeout"

\* ---------------------------------------------- what a batch run is given

\* A screen has a url, or a template (its parts: literal text, or the
\* placeholder :key or {key} of a key) with params (the entries of the object,
\* in their order), or neither.
HomeScreen == [id |-> "home", name |-> "Home", url |-> "/", template |-> <<>>, params |-> <<>>,
               states |-> <<>>, viewports |-> <<>>, ready |-> FALSE]
AccountScreen == [id |-> "account", name |-> "Account", url |-> "/account", template |-> <<>>,
                  params |-> <<>>, states |-> <<"auth">>,
                  viewports |-> <<"mobile">>, ready |-> TRUE]
PricingScreen == [id |-> "pricing", name |-> "Pricing", url |-> "/pricing", template |-> <<>>,
                  params |-> <<>>, states |-> <<>>, viewports |-> <<>>,
                  ready |-> FALSE]
DocsScreen == [id |-> "docs", name |-> "Docs", url |-> None,
               template |-> <<[kind |-> "lit", text |-> "/docs/"],
                              [kind |-> "colon", text |-> "page"]>>,
               params |-> <<[key |-> "page", values |-> <<"intro", "api">>]>>,
               states |-> <<"prod">>, viewports |-> <<"desktop">>,
               ready |-> FALSE]
Prod == [id |-> "prod", setup |-> FALSE]
\* A screen whose one parameter has a single value, and one whose parameter
\* has no value at all.
TeamScreen == [id |-> "team", name |-> "Team", url |-> None,
               template |-> <<[kind |-> "lit", text |-> "/team/"],
                              [kind |-> "brace", text |-> "id"]>>,
               params |-> <<[key |-> "id", values |-> <<"core">>]>>,
               states |-> <<>>, viewports |-> <<"desktop">>, ready |-> FALSE]
BlogScreen == [id |-> "blog", name |-> "Blog", url |-> None,
               template |-> <<[kind |-> "lit", text |-> "/blog/"],
                              [kind |-> "colon", text |-> "slug"]>>,
               params |-> <<[key |-> "slug", values |-> <<>>]>>,
               states |-> <<>>, viewports |-> <<"desktop">>, ready |-> FALSE]

\* A step of a flow: its type, and the name a capture step may have.
Step(type, name) == [type |-> type, name |-> name]

TourFlow == [id |-> "tour", name |-> "Tour", state |-> None,
             viewport |-> "mobile",
             steps |-> <<Step("goto", None), Step("capture", None)>>]
SettingsFlow == [id |-> "settings", name |-> "Settings", state |-> "auth",
                 viewport |-> None,
                 steps |-> <<Step("goto", None), Step("click", None),
                             Step("capture", "Saved")>>]
CheckoutFlow == [id |-> "checkout", name |-> "Checkout", state |-> None,
                 viewport |-> None,
                 steps |-> <<Step("capture", None), Step("fill", None),
                             Step("waitFor", None), Step("capture", "Paid"),
                             Step("press", None)>>]

\* Ids are any strings: these have a hyphen in them.
AuthAdmin == [id |-> "auth-admin", setup |-> FALSE]
AdminDesktop == [id |-> "admin-desktop", width |-> 1280, height |-> 720]

HyphenConfigs ==
  { [command |-> FALSE, baseUrl |-> None, states |-> <<Auth, AuthAdmin>>,
     viewports |-> <<DEFAULT_VIEWPORT, AdminDesktop>>,
     screens |-> <<HomeScreen>>, flows |-> <<>>] }

\* A screen whose states filter names a state the configuration has not.
LegacyScreen == [id |-> "legacy", name |-> "Legacy", url |-> "/legacy",
                 template |-> <<>>, params |-> <<>>, states |-> <<"staging">>,
                 viewports |-> <<>>, ready |-> FALSE]

StaleFilterConfigs ==
  { [command |-> FALSE, baseUrl |-> None, states |-> <<DEFAULT_STATE, Auth>>,
     viewports |-> <<DEFAULT_VIEWPORT>>,
     screens |-> <<LegacyScreen, HomeScreen>>, flows |-> <<>>] }

BatchConfigs ==
  { [command |-> cmd, baseUrl |-> b, states |-> ss, viewports |-> vs,
     screens |-> sc, flows |-> fl] :
      cmd \in BOOLEAN, b \in {None, AppUrl},
      ss \in {<<>>, <<DEFAULT_STATE, Auth>>, <<Prod, DEFAULT_STATE>>},
      vs \in {<<DEFAULT_VIEWPORT>>, <<DEFAULT_VIEWPORT, Mobile>>},
      sc \in {<<>>, <<HomeScreen>>, <<HomeScreen, AccountScreen>>,
              <<HomeScreen, PricingScreen>>, <<DocsScreen, HomeScreen>>,
              <<BlogScreen, TeamScreen>>},
      fl \in {<<>>, <<TourFlow>>, <<SettingsFlow>>,
              <<CheckoutFlow, TourFlow>>} }
  \cup HyphenConfigs \cup StaleFilterConfigs

\* runCapture before its first await; proc is the process spawn started,
\* child says whether runCapture's `child` is bound to it.
NewRun(cfg) ==
  [config |-> normalizeConfig(cfg), baseUrl |-> cfg.baseUrl,
   pc |-> "ensureDir", dirs |-> 0, proc |-> None, child |-> FALSE,
   browser |-> None, open |-> 0, inFlow |-> FALSE,
   si |-> 1, vi |-> 1, ki |-> 1, ui |-> 1, fi |-> 1, ti |-> 1,
   stepIndex |-> 0, ran |-> <<>>,
   answers |-> <<>>, manifest |-> [screens |-> <<>>, flows |-> <<>>],
   shots |-> 0, navs |-> 0, error |-> None, written |-> FALSE,
   opened |-> <<>>, setups |-> <<>>, resizes |-> <<>>,
   discovered |-> <<>>, framed |-> {}, discoveredUrls |-> <<>>]

\* No batch run is going on.
NoRun ==
  [NewRun([command |-> FALSE, baseUrl |-> None, states |-> <<>>,
           viewports |-> <<>>, screens |-> <<>>, flows |-> <<>>])
     EXCEPT !.pc = "idle"]

\* --------------------------------------------------------------- the state

VARIABLES
  \* the automation host and the operating system
  browsers,          \* browsers[b]: is browser b open
  contexts,          \* contexts[k]: a context and its page
  orphans,           \* processes running that no ChildProcess field holds
  pageUrl,           \* page.url() of the controller's page (no other is read)
  \* runStudioServer
  currentConfig,
  tasks,             \* the HTTP requests: in flight, or just answered
  overlaps,          \* requests that may still arrive during another one
  \* StudioController
  config, browser, context, page, child, baseUrl, recordingFlow, lastNavUrl,
  currentStateId, currentViewportId, recorderReady,
  \* runCapture
  run,               \* one batch run: its locals, the objects it made, its output
  \* what a specification follows besides
  dom,               \* the controller's page from inside: bindings, listeners
  lists,             \* currentConfig.screens and currentConfig.flows
  discovered,        \* StudioController.discovered
  scope,             \* which of dom, lists, discovered the specification follows
  calc               \* a function of the program applied: its argument, its result

hostVars == <<browsers, contexts, orphans, pageUrl, dom>>
serverVars == <<currentConfig, tasks, overlaps, lists>>
ctlVars == <<config, browser, context, page, child, baseUrl, recordingFlow,
             lastNavUrl, currentStateId, currentViewportId, recorderReady,
             discovered>>
vars == <<hostVars, serverVars, ctlVars, run, scope, calc>>

\* No function was applied.
NoCalc == [fn |-> None, arg |-> None, out |-> None]

\* No recording (undefined); state and viewport are set by stopRecording.
NoFlow == [active |-> FALSE, id |-> None, steps |-> <<>>, state |-> None,
           viewport |-> None]

\* A page just created: no binding exposed, the document's
\* __screenboardRecorderInstalled unset, no click listener, no click made.
NewDom == [exposed |-> FALSE, flag |-> FALSE, listeners |-> 0, clicks |-> 0]

\* The session alone: the lists of the live config, which no operation of the
\* controller reads, the inside of the page and the discovered urls are left
\* out; a recording buffers MaxSteps steps.
SessionScope == [screens |-> FALSE, flows |-> FALSE, page |-> FALSE,
                 steps |-> MaxSteps, made |-> FALSE, overlays |-> Overlays]

\* The controller's fields and the host as one value, for the pure operators.
Ctl ==
  [config |-> config, browser |-> browser, context |-> context,
   page |-> page, child |-> child, baseUrl |-> baseUrl,
   recordingFlow |-> recordingFlow, lastNavUrl |-> lastNavUrl,
   currentStateId |-> currentStateId, currentViewportId |-> currentViewportId,
   recorderReady |-> recorderReady, currentConfig |-> currentConfig,
   discovered |-> discovered, lists |-> lists]

World ==
  [browsers |-> browsers, contexts |-> contexts, orphans |-> orphans,
   pageUrl |-> pageUrl, dom |-> dom]

\* What a request saw when it arrived.
Snapshot(c) ==
  [browser |-> c.browser, context |-> c.context, page |-> c.page,
   recordingFlow |-> c.recordingFlow, currentStateId |-> c.currentStateId,
   currentViewportId |-> c.currentViewportId, child |-> c.child]

NoSnapshot ==
  [browser |-> 0, context |-> 0, page |-> 0, recordingFlow |-> NoFlow,
   currentStateId |-> None, currentViewportId |-> None, child |-> None]

\* What a context was made with: the state whose storageState newContext
\* was given, and the viewport and the size its page was last resized to.
\* Kept when scope.made says so.
NoMade == [state |-> None, viewport |-> None, width |-> 0, height |-> 0]

\* A request: its arguments, its position (pc), the locals of the code it is
\* in (st, vp: the state and viewport ensureContext resolved; tb, tc, tp: the
\* browser, context, page the pending host call was made on), its response.
IdleTask ==
  [op |-> "idle", pc |-> "idle", baseUrl |-> None, stateId |-> None,
   viewportId |-> None, url |-> None,
   resolved |-> FALSE, st |-> DEFAULT_STATE, vp |-> DEFAULT_VIEWPORT,
   tb |-> 0, tc |-> 0, tp |-> 0, resp |-> None, err |-> None,
   at |-> NoSnapshot, shot |-> NoMade]

\* ------------------------------------------------- the host's own workings

NewContextRec(b) ==
  [browser |-> b, open |-> TRUE, hasPage |-> FALSE, made |-> NoMade]

\* A closed context: nothing of it can be used or observed any more.
ClosedContext ==
  [browser |-> 0, open |-> FALSE, hasPage |-> FALSE, made |-> NoMade]

BrowserOpen(w, b) == b \in 1..MaxBrowsers /\ w.browsers[b]

ContextOpen(w, k) == k \in 1..MaxContexts /\ w.contexts[k].open

PageOpen(w, k) == ContextOpen(w, k) /\ w.contexts[k].hasPage

CloseContextIn(w, k) ==
  [w EXCEPT !.contexts = [i \in 1..MaxContexts |->
      IF i = k THEN ClosedContext ELSE w.contexts[i]]]

\* Closing a browser closes every context that belongs to it.
CloseBrowserIn(w, b) ==
  [w EXCEPT
     !.browsers = [i \in 1..MaxBrowsers |->
        IF i = b THEN FALSE ELSE w.browsers[i]],
     !.contexts = [i \in 1..MaxContexts |->
        IF w.contexts[i].browser = b
        THEN ClosedContext ELSE w.contexts[i]]]

\* page p has navigated to url: a new document, without the listeners and the
\* globals of the one before; the bindings of the page stay.
Navigated(c, w, p, url) ==
  IF p = c.page
  THEN [w EXCEPT !.pageUrl = url, !.dom.flag = FALSE, !.dom.listeners = 0]
  ELSE w

Tasks == 1..MaxInflight

InitOf(cfgs, n) ==
  /\ browsers = [b \in 1..MaxBrowsers |-> FALSE]
  /\ contexts = [k \in 1..MaxContexts |-> ClosedContext]
  /\ orphans = 0
  /\ pageUrl = None
  /\ currentConfig \in {normalizeConfig(cfg) : cfg \in cfgs}
  /\ config = normalizeConfig(currentConfig)
  /\ tasks = [t \in Tasks |-> IdleTask]
  /\ overlaps = n
  /\ browser = 0 /\ context = 0 /\ page = 0 /\ child = None
  /\ baseUrl = None /\ recordingFlow = NoFlow /\ lastNavUrl = None
  /\ currentStateId = None /\ currentViewportId = None
  /\ recorderReady = FALSE
  /\ discovered = {}
  /\ dom = NewDom
  /\ lists = [screens |-> <<>>, flows |-> <<>>]
  /\ calc = NoCalc

InitController(n) == InitOf(BaseConfigs, n)

\* The studio server is up and no batch run is going on.
InitWith(n) == InitController(n) /\ run = NoRun /\ scope = SessionScope

\* StudioController.getStatus
getStatus ==
  [connected |-> page # 0,
   url |-> IF page # 0 THEN pageUrl ELSE None,
   baseUrl |-> baseUrl,
   recording |-> recordingFlow.active]

\* ------------------------------------------------ how a request completes

\* The handlers of runStudioServer that wrap their work in try/catch.
Caught == {"launch", "goto", "capture", "validateSelector", "recordStart",
           "save"}

\* The handler is over: what is left of the request is its response (and, for
\* the record, the state and viewport it was resolved to).
Over(t) ==
  [IdleTask EXCEPT !.op = t.op, !.pc = "done", !.resolved = t.resolved,
                   !.st = t.st, !.vp = t.vp, !.shot = t.shot]

\* res.json(...)
Succeed(t) == [Over(t) EXCEPT !.resp = "200"]

\* A throw inside the handler: res.status(500).json({error}) when the handler
\* catches, otherwise the rejection escapes and no response is sent.
Fail(t, err) ==
  [Over(t) EXCEPT !.err = err,
            !.resp = IF t.op \in Caught THEN "500" ELSE "unanswered"]

Out(c, w, t) == [c |-> c, w |-> w, t |-> t]

\* ----------------------------------------------------- handles of the host

\* A handle names a browser, a context (and its page) or a process.  The handle
\* of an object that is closed and that nothing refers to any more names the
\* next object created.
Min(S) == CHOOSE x \in S : \A y \in S : x <= y

FreeBrowsers(c, w) ==
  {b \in 1..MaxBrowsers :
     /\ ~w.browsers[b] /\ b # c.browser
     /\ \A j \in Tasks : b \notin {tasks[j].tb, tasks[j].at.browser}}

FreeContexts(c, w) ==
  {k \in 1..MaxContexts :
     /\ ~w.contexts[k].open /\ k \notin {c.context, c.page}
     /\ \A j \in Tasks : k \notin {tasks[j].tc, tasks[j].tp,
                                    tasks[j].at.context, tasks[j].at.page}}

\* this.child is undefined ("none"), a running process, or one that was sent
\* SIGTERM ("killed").  The processes running:
Running(c, w) == w.orphans + (IF c.child = "running" THEN 1 ELSE 0)

\* ------------------------------------------- StudioController.ensureContext

\* The policy without its viewport clause.
needsNewContextNoViewport(c, st, vp) ==
  \/ c.context = 0
  \/ c.currentStateId # st.id

needsNewContext(c, st, vp) ==
  \/ c.context = 0
  \/ c.currentStateId # st.id
  \/ c.currentViewportId # vp.id

\* The statements after `await this.ensureContext(...)` in launch and capture,
\* up to the next suspension.
AfterEnsureContext(c, w, t) ==
  IF t.op = "launch"
  THEN IF c.baseUrl # None /\ c.page # 0
       THEN Out(c, w, [t EXCEPT !.pc = "navBase", !.tp = c.page,
                                !.url = c.baseUrl])
       ELSE Out(c, w, Succeed(t))
  ELSE IF t.url # None
       THEN Out(c, w, [t EXCEPT !.pc = "capNav", !.tp = c.page,
                                !.url = resolveUrl(c.baseUrl, t.url)])
       ELSE Out(c, w, [t EXCEPT !.pc = "capDir",
                                !.vp = getViewport(c.config, t.viewportId),
                                !.st = getState(c.config, t.stateId)])

\* this.browser!.newContext(...): a TypeError when no browser is held.
CallNewContext(c, w, t) ==
  IF c.browser = 0
  THEN Out(c, w, Fail(t, "TypeError"))
  ELSE Out(c, w, [t EXCEPT !.pc = "newContext", !.tb = c.browser])

ensureContext(c, w, t) ==
  LET st == getState(c.config, t.stateId)
      vp == getViewport(c.config, t.viewportId)
      t1 == [t EXCEPT !.st = st, !.vp = vp, !.resolved = TRUE]
  IN IF needsNewContext(c, st, vp)
     THEN IF c.context # 0
          THEN Out(c, w, [t1 EXCEPT !.pc = "ctxClose", !.tc = c.context])
          ELSE CallNewContext(c, w, t1)
     ELSE AfterEnsureContext(c, w, t1)

\* ------------------------------------------ StudioController.ensureAppRunning

ensureAppRunning(c, w, t) ==
  LET next == IF c.baseUrl # None THEN "waitForUrl" ELSE "chromiumLaunch"
  IN IF ~c.config.command
     THEN Out(c, w, [t EXCEPT !.pc = next])
     ELSE Out([c EXCEPT !.child = "running"],        \* this.child = spawn(...)
              [w EXCEPT !.orphans = Running(c, w)],
              [t EXCEPT !.pc = next])

\* --------------------------------------------------- StudioController.launch

\* launch without its `if (!this.browser)`.
launchAlwaysStarts(c, w, t, optBaseUrl) ==
  ensureAppRunning([c EXCEPT !.baseUrl = IF optBaseUrl # None THEN optBaseUrl
                                         ELSE c.config.baseUrl], w, t)

launch(c, w, t, optBaseUrl) ==
  LET c1 == [c EXCEPT !.baseUrl = IF optBaseUrl # None THEN optBaseUrl
                                  ELSE c.config.baseUrl]
  IN IF c1.browser = 0 THEN ensureAppRunning(c1, w, t)
     ELSE ensureContext(c1, w, t)

\* updateConfig that also forgets the active ids, to have the next call build
\* a context for the new configuration.
updateConfigResets(c, nextConfig) ==
  [c EXCEPT !.config = normalizeConfig(nextConfig),
            !.currentStateId = None, !.currentViewportId = None]

\* StudioController.updateConfig
updateConfig(c, nextConfig) == [c EXCEPT !.config = normalizeConfig(nextConfig)]

\* The overlay of POST /api/launch and /api/capture: parse, spread, updateConfig.
ApplyOverlay(c, ov) ==
  IF ~ov.present THEN c
  ELSE LET cc == SpreadOverlay(c.currentConfig, ov)
       IN updateConfig([c EXCEPT !.currentConfig = cc], cc)

\* ----------------------------------------------------------- the actions

\* The requests not yet retired, and those of them still running.
Busy == {j \in Tasks : tasks[j].op # "idle"}

InFlight == {j \in Tasks : tasks[j].pc \notin {"idle", "done"}}

\* The controller, the live config and the host become c and w.
Assign(c, w) ==
  /\ browsers' = w.browsers
  /\ contexts' = w.contexts
  /\ orphans' = w.orphans
  /\ pageUrl' = w.pageUrl
  /\ currentConfig' = c.currentConfig
  /\ config' = c.config
  /\ browser' = c.browser
  /\ context' = c.context
  /\ page' = c.page
  /\ child' = c.child
  /\ baseUrl' = c.baseUrl
  /\ recordingFlow' = c.recordingFlow
  /\ lastNavUrl' = c.lastNavUrl
  /\ currentStateId' = c.currentStateId
  /\ currentViewportId' = c.currentViewportId
  /\ recorderReady' = c.recorderReady
  /\ discovered' = IF scope.page THEN c.discovered ELSE discovered
  /\ dom' = IF scope.page THEN w.dom ELSE dom
  /\ lists' = [screens |-> IF scope.screens THEN c.lists.screens
                           ELSE lists.screens,
               flows |-> IF scope.flows THEN c.lists.flows ELSE lists.flows]
  /\ scope' = scope
  /\ calc' = calc

\* Something happens in the page, whatever the requests are doing.
Happens(c, w) == Assign(c, w) /\ UNCHANGED <<tasks, overlaps, run>>

Commit(tid, o) ==
  /\ Assign(o.c, o.w)
  /\ overlaps' = IF tasks[tid].op = "idle" /\ Busy # {}
                  THEN overlaps - 1 ELSE overlaps
  /\ tasks' = [tasks EXCEPT ![tid] = o.t]
  /\ UNCHANGED run

\* A request arrives: when none is in flight, or overlapping another one.
Arrives(tid) ==
  /\ tasks[tid].op = "idle"
  /\ \A j \in 1..(tid - 1) : tasks[j].op # "idle"
  /\ Busy = {} \/ (InFlight # {} /\ overlaps > 0)

NewTask(op) == [IdleTask EXCEPT !.op = op, !.at = Snapshot(Ctl)]

\* The client has read the response of a request; the request is forgotten.
Retire ==
  \E tid \in Tasks :
    /\ tasks[tid].pc = "done"
    /\ tasks' = [tasks EXCEPT ![tid] = IdleTask]
    /\ UNCHANGED <<hostVars, ctlVars, currentConfig, overlaps, lists, run,
                   scope, calc>>

\* POST /api/launch
ReqLaunch ==
  \E tid \in Tasks, b \in {None, AppUrl}, s \in ReqStateIds,
     v \in ReqViewportIds, ov \in scope.overlays :
    /\ Arrives(tid)
    /\ (browser = 0 /\ config.command) => Running(Ctl, World) < MaxProcs
    /\ LET t == [NewTask("launch") EXCEPT !.stateId = s, !.viewportId = v]
       IN Commit(tid, IF ov.present /\ ~ov.valid
                      THEN Out(Ctl, World, Fail(t, "ValidationError"))
                      ELSE launch(ApplyOverlay(Ctl, ov), World, t, b))

\* launch: `await waitForUrl(this.baseUrl)` settles.
LaunchWaitForUrl ==
  \E tid \in Tasks, answers \in PollAnswers :
    /\ tasks[tid].pc = "waitForUrl"
    /\ Commit(tid, IF waitForUrl(answers) = "ok"
                   THEN Out(Ctl, World, [tasks[tid] EXCEPT !.pc = "chromiumLaunch"])
                   ELSE Out(Ctl, World, Fail(tasks[tid], "StartupTimeout")))

\* launch: `this.browser = await chromium.launch(...)` settles.
LaunchBrowser ==
  \E tid \in Tasks, ok \in BOOLEAN :
    /\ tasks[tid].pc = "chromiumLaunch"
    /\ ok => FreeBrowsers(Ctl, World) # {}
    /\ Commit(tid,
         IF ok
         THEN LET b == Min(FreeBrowsers(Ctl, World))
              IN ensureContext([Ctl EXCEPT !.browser = b],
                               [World EXCEPT !.browsers[b] = TRUE], tasks[tid])
         ELSE Out(Ctl, World, Fail(tasks[tid], "HostError")))

\* The listener comparing url with every url the recording holds already.
FrameNavigatedOnce(c, p, url, main) ==
  LET c1 == IF url # "about:blank"
            THEN [c EXCEPT !.discovered = @ \cup {url}] ELSE c
      held == {c1.lastNavUrl} \cup
              {c1.recordingFlow.steps[i].arg :
                 i \in 1..Len(c1.recordingFlow.steps)}
  IN IF c1.recordingFlow.active /\ main /\ p = c1.page /\ url \notin held
     THEN [c1 EXCEPT !.lastNavUrl = url,
                     !.recordingFlow.steps =
                        Append(@, [type |-> "goto", arg |-> url])]
     ELSE c1

\* The page's "framenavigated" listener (registered in ensureContext): a
\* frame of page p, the main one or not, has navigated to url.
FrameNavigated(c, p, url, main) ==
  LET c1 == IF url # "about:blank"
            THEN [c EXCEPT !.discovered = @ \cup {url}] ELSE c
  IN IF c1.recordingFlow.active /\ main /\ p = c1.page /\ url # c1.lastNavUrl
     THEN [c1 EXCEPT !.lastNavUrl = url,
                     !.recordingFlow.steps =
                        Append(@, [type |-> "goto", arg |-> url])]
     ELSE c1

\* A navigation settles well only on an open page and to an absolute url; one
\* that would overrun the recording buffer is not taken.
CanNavigate(c, w, p, url) ==
  /\ PageOpen(w, p)
  /\ url \notin Paths
  /\ Len(FrameNavigated(c, p, url, TRUE).recordingFlow.steps) <= scope.steps

\* ensureContext: `await this.context.close()` settles.
EnsureContextClose ==
  \E tid \in Tasks, ok \in BOOLEAN :
    /\ tasks[tid].pc = "ctxClose"
    /\ Commit(tid,
         IF ok
         THEN CallNewContext(Ctl, CloseContextIn(World, tasks[tid].tc),
                             tasks[tid])
         ELSE Out(Ctl, World, Fail(tasks[tid], "HostError")))

\* ensureContext: `this.context = await this.browser!.newContext(...)` settles;
\* then this.context.newPage() is called.
EnsureContextNewContext ==
  \E tid \in Tasks, ok \in BOOLEAN :
    LET t == tasks[tid] IN
    /\ t.pc = "newContext"
    /\ ok => (BrowserOpen(World, t.tb) /\ FreeContexts(Ctl, World) # {})
    /\ Commit(tid,
         IF ok
         THEN LET k == Min(FreeContexts(Ctl, World))
              IN Out([Ctl EXCEPT !.context = k],
                     [World EXCEPT !.contexts[k] =
                        [NewContextRec(t.tb) EXCEPT !.made.state =
                           IF scope.made THEN t.st.id ELSE None]],
                     [t EXCEPT !.pc = "newPage", !.tc = k])
         ELSE Out(Ctl, World, Fail(t, "HostError")))

\* ensureContext: `this.page = await this.context.newPage()` settles; the
\* recorder flag is reset, the listener registered, setViewportSize called.
EnsureContextNewPage ==
  \E tid \in Tasks, ok \in BOOLEAN :
    LET t == tasks[tid] IN
    /\ t.pc = "newPage"
    /\ ok => ContextOpen(World, t.tc)
    /\ Commit(tid,
         IF ok
         THEN Out([Ctl EXCEPT !.page = t.tc, !.recorderReady = FALSE],
                     [World EXCEPT !.contexts[t.tc].hasPage = TRUE,
                                   !.pageUrl = "about:blank",
                                   !.dom = NewDom],
                     [t EXCEPT !.pc = "resize", !.tp = t.tc])
         ELSE Out(Ctl, World, Fail(t, "HostError")))

\* page.setViewportSize({ width, height }) of page p has settled.
Resized(w, p, viewport) ==
  IF scope.made
  THEN [w EXCEPT !.contexts[p].made.viewport = viewport.id,
                 !.contexts[p].made.width = viewport.width,
                 !.contexts[p].made.height = viewport.height]
  ELSE w

\* The end of ensureContext's branch: the active ids are recorded.
SetCurrent(c, t) ==
  [c EXCEPT !.currentStateId = t.st.id, !.currentViewportId = t.vp.id]

\* ensureContext: `await this.page.setViewportSize(...)` settles.
EnsureContextResize ==
  \E tid \in Tasks, ok \in BOOLEAN :
    LET t == tasks[tid] IN
    /\ t.pc = "resize"
    /\ ok => PageOpen(World, t.tp)
    /\ Commit(tid,
         IF ok
         THEN LET w == Resized(World, t.tp, t.vp)
              IN IF t.st.setup
                 THEN Out(Ctl, w, [t EXCEPT !.pc = "setup"])
                 ELSE AfterEnsureContext(SetCurrent(Ctl, t), w, t)
         ELSE Out(Ctl, World, Fail(t, "HostError")))

\* ensureContext: `await state.setup(this.page)` settles.
EnsureContextSetup ==
  \E tid \in Tasks, ok \in BOOLEAN :
    LET t == tasks[tid] IN
    /\ t.pc = "setup"
    /\ Commit(tid,
         IF ok THEN AfterEnsureContext(SetCurrent(Ctl, t), World, t)
         ELSE Out(Ctl, World, Fail(t, "HostError")))

\* launch: `await this.page?.goto(this.baseUrl, ...)` settles.
LaunchNavBase ==
  \E tid \in Tasks, ok \in BOOLEAN :
    LET t == tasks[tid] IN
    /\ t.pc = "navBase"
    /\ ok => CanNavigate(Ctl, World, t.tp, t.url)
    /\ Commit(tid,
         IF ok
         THEN Out(FrameNavigated(Ctl, t.tp, t.url, TRUE), Navigated(Ctl, World, t.tp, t.url),
                  Succeed(t))
         ELSE Out(Ctl, World, Fail(t, "NavigationFailure")))

\* ----------------------------------------------------- StudioController.goto

\* goto without its `if (!this.page)`.
gotoUnchecked(c, w, t, url) ==
  Out(c, w, [t EXCEPT !.pc = "gotoNav", !.tp = c.page,
                      !.url = resolveUrl(c.baseUrl, url)])

goto(c, w, t, url) ==
  IF c.page = 0 THEN Out(c, w, Fail(t, "NotLaunched"))
  ELSE Out(c, w, [t EXCEPT !.pc = "gotoNav", !.tp = c.page,
                           !.url = resolveUrl(c.baseUrl, url)])

\* POST /api/goto
ReqGoto ==
  \E tid \in Tasks, url \in Paths :
    /\ Arrives(tid)
    /\ Commit(tid, goto(Ctl, World, NewTask("goto"), url))

\* goto: `await this.page.goto(...)` settles.
GotoNav ==
  \E tid \in Tasks, ok \in BOOLEAN :
    LET t == tasks[tid] IN
    /\ t.pc = "gotoNav"
    /\ ok => CanNavigate(Ctl, World, t.tp, t.url)
    /\ Commit(tid,
         IF ok
         THEN Out(FrameNavigated(Ctl, t.tp, t.url, TRUE), Navigated(Ctl, World, t.tp, t.url),
                  Succeed(t))
         ELSE Out(Ctl, World, Fail(t, "NavigationFailure")))

\* -------------------------------------------------- StudioController.capture

capture(c, w, t) ==
  IF c.page = 0 THEN Out(c, w, Fail(t, "NotLaunched"))
  ELSE ensureContext(c, w, t)

\* Of the Screen capture returns, the fields the lists are compared by (the
\* name, and so the id, is the same in every request).
Screen(t) ==
  [id |-> "screen", states |-> <<t.st.id>>, viewports |-> <<t.vp.id>>]

\* The handler with `currentConfig.screens = [result.screen]`.
replaceScreens(ls, screen) == [ls EXCEPT !.screens = <<screen>>]

\* POST /api/capture: currentConfig.screens = [...screens, result.screen]
appendScreen(ls, screen) == [ls EXCEPT !.screens = Append(@, screen)]

\* POST /api/capture
ReqCapture ==
  \E tid \in Tasks, s \in ReqStateIds, v \in ReqViewportIds,
     url \in {None} \cup Paths, ov \in scope.overlays :
    /\ Arrives(tid)
    /\ Len(lists.screens) < MaxScreens
    /\ LET t == [NewTask("capture") EXCEPT !.stateId = s, !.viewportId = v,
                                           !.url = url]
       IN Commit(tid, IF ov.present /\ ~ov.valid
                      THEN Out(Ctl, World, Fail(t, "ValidationError"))
                      ELSE capture(ApplyOverlay(Ctl, ov), World, t))

\* capture: `await this.page.goto(...)` settles; sleep(150) starts.
CaptureNav ==
  \E tid \in Tasks, ok \in BOOLEAN :
    LET t == tasks[tid] IN
    /\ t.pc = "capNav"
    /\ ok => CanNavigate(Ctl, World, t.tp, t.url)
    /\ Commit(tid,
         IF ok
         THEN Out(FrameNavigated(Ctl, t.tp, t.url, TRUE), Navigated(Ctl, World, t.tp, t.url),
                  [t EXCEPT !.pc = "capSettle"])
         ELSE Out(Ctl, World, Fail(t, "NavigationFailure")))

\* capture: sleep(150) is over; the viewport and the state are looked up and
\* ensureDir is called.
CaptureSettle ==
  \E tid \in Tasks :
    LET t == tasks[tid] IN
    /\ t.pc = "capSettle"
    /\ Commit(tid, Out(Ctl, World,
         [t EXCEPT !.pc = "capDir",
                   !.vp = getViewport(config, t.viewportId),
                   !.st = getState(config, t.stateId)]))

\* capture: `await ensureDir(...)` settles; this.page.screenshot is called.
CaptureDir ==
  \E tid \in Tasks, ok \in BOOLEAN :
    LET t == tasks[tid] IN
    /\ t.pc = "capDir"
    /\ Commit(tid,
         IF ok THEN Out(Ctl, World, [t EXCEPT !.pc = "capShot", !.tp = page])
         ELSE Out(Ctl, World, Fail(t, "HostError")))

\* capture: `await this.page.screenshot(...)` settles; capture returns the
\* screen and the shot, the handler lists the screen and answers.
CaptureShot ==
  \E tid \in Tasks, ok \in BOOLEAN :
    LET t == tasks[tid] IN
    /\ t.pc = "capShot"
    /\ ok => PageOpen(World, t.tp)
    /\ Commit(tid,
         IF ok
         THEN Out([Ctl EXCEPT !.lists = appendScreen(@, Screen(t))], World,
                  Succeed([t EXCEPT !.shot = IF scope.made
                                             THEN contexts[t.tp].made
                                             ELSE NoMade]))
         ELSE Out(Ctl, World, Fail(t, "HostError")))

\* ----------------------------------------- StudioController.validateSelector

validateSelector(c, w, t) ==
  IF c.page = 0 THEN Out(c, w, Fail(t, "NotLaunched"))
  ELSE Out(c, w, [t EXCEPT !.pc = "count", !.tp = c.page])

\* POST /api/validateSelector
ReqValidateSelector ==
  \E tid \in Tasks :
    /\ Arrives(tid)
    /\ Commit(tid, validateSelector(Ctl, World, NewTask("validateSelector")))

\* validateSelector: `await locator.count()` settles.
ValidateCount ==
  \E tid \in Tasks, ok \in BOOLEAN :
    LET t == tasks[tid] IN
    /\ t.pc = "count"
    /\ ok => PageOpen(World, t.tp)
    /\ Commit(tid, Out(Ctl, World,
                       IF ok THEN Succeed(t) ELSE Fail(t, "HostError")))

\* ------------------------------------------- StudioController.startRecording

startRecording(c, w, t, name) ==
  IF c.page = 0 THEN Out(c, w, Fail(t, "NotLaunched"))
  ELSE LET c1 == [c EXCEPT
                    !.recordingFlow = [NoFlow EXCEPT !.active = TRUE,
                                                      !.id = name],
                    !.lastNavUrl = w.pageUrl]
       IN IF ~c1.recorderReady
          THEN Out(c1, w, [t EXCEPT !.pc = "expose", !.tp = c1.page])
          ELSE Out(c1, w, Succeed(t))

\* POST /api/record/start
ReqStartRecording ==
  \E tid \in Tasks :
    /\ Arrives(tid)
    /\ Commit(tid, startRecording(Ctl, World, NewTask("recordStart"), "flow"))

\* The callback startRecording hands to installRecorder.
onRecord(c) ==
  IF ~c.recordingFlow.active THEN c
  ELSE [c EXCEPT !.recordingFlow.steps =
                    Append(@, [type |-> "click", arg |-> "selector"])]

\* installRecorder: `await page.exposeFunction(...)` settles; page.evaluate is
\* called.  A page takes a binding of one name once.
RecorderExpose ==
  \E tid \in Tasks, ok \in BOOLEAN :
    LET t == tasks[tid] IN
    /\ t.pc = "expose"
    /\ ok => (PageOpen(World, t.tp) /\ ~(t.tp = page /\ dom.exposed))
    /\ Commit(tid,
         IF ok
         THEN Out(Ctl, IF t.tp = page THEN [World EXCEPT !.dom.exposed = TRUE]
                       ELSE World,
                  [t EXCEPT !.pc = "evaluate"])
         ELSE Out(Ctl, World, Fail(t, "HostError")))

\* The function installRecorder evaluates in the page's document.
InPageInstall(d) ==
  IF d.flag THEN d ELSE [d EXCEPT !.flag = TRUE, !.listeners = @ + 1]

\* installRecorder: `await page.evaluate(...)` settles; startRecording sets
\* recorderReady.
RecorderEvaluate ==
  \E tid \in Tasks, ok \in BOOLEAN :
    LET t == tasks[tid] IN
    /\ t.pc = "evaluate"
    /\ ok => PageOpen(World, t.tp)
    /\ Commit(tid,
         IF ok
         THEN Out([Ctl EXCEPT !.recorderReady = TRUE],
                  IF t.tp = page THEN [World EXCEPT !.dom = InPageInstall(@)]
                  ELSE World,
                  Succeed(t))
         ELSE Out(Ctl, World, Fail(t, "HostError")))

\* The click listeners of the document, n of them, each call the binding.
RECURSIVE ClickHeard(_, _)
ClickHeard(c, n) == IF n = 0 THEN c ELSE ClickHeard(onRecord(c), n - 1)

\* The user clicks an element of the page the controller holds.
Click ==
  /\ scope.page /\ PageOpen(World, page)
  /\ dom.clicks < MaxClicks
  /\ LET c1 == ClickHeard(Ctl, dom.listeners)
     IN /\ Len(c1.recordingFlow.steps) <= scope.steps
        /\ Happens(c1, [World EXCEPT !.dom.clicks = @ + 1])

\* A frame of the page that is not its main frame navigates.
SubframeNavigated ==
  \E url \in FrameUrls :
    /\ scope.page /\ PageOpen(World, page)
    /\ Happens(FrameNavigated(Ctl, page, url, FALSE), World)

\* -------------------------------------------- StudioController.stopRecording

\* stopRecording without the two assignments to the flow.
stopRecordingUnstamped(c) ==
  [c |-> [c EXCEPT !.recordingFlow = NoFlow], flow |-> c.recordingFlow]

\* The controller after the call (c) and what the call returns (flow; NoFlow
\* is undefined).
stopRecording(c) ==
  [c |-> [c EXCEPT !.recordingFlow = NoFlow],
   flow |-> IF c.recordingFlow.active
            THEN [c.recordingFlow EXCEPT !.state = c.currentStateId,
                                         !.viewport = c.currentViewportId]
            ELSE NoFlow]

\* POST /api/record/stop: currentConfig.flows = [...flows, flow]
appendFlow(ls, flow) == [ls EXCEPT !.flows = Append(@, flow)]

\* POST /api/record/stop
ReqStopRecording ==
  \E tid \in Tasks :
    /\ Arrives(tid)
    /\ recordingFlow.active => Len(lists.flows) < MaxFlows
    /\ LET r == stopRecording(Ctl)
       IN Commit(tid,
            Out(IF r.flow.active
                THEN [r.c EXCEPT !.lists = appendFlow(@, r.flow)] ELSE r.c,
                World, Succeed(NewTask("recordStop"))))

\* ------------------------------------------------------------ POST /api/save

\* POST /api/save: the body is parsed and writeFile is called.
ReqSave ==
  \E tid \in Tasks, ov \in Overlays :
    /\ Arrives(tid)
    /\ LET t == NewTask("save")
       IN Commit(tid, Out(Ctl, World,
            IF ~ov.valid THEN Fail(t, "ValidationError")
            ELSE [t EXCEPT !.pc = IF ov.hasViewports THEN "writeSwap"
                                  ELSE "writeFile"]))

\* save: `await writeFile(...)` settles; the parsed body is spread over
\* currentConfig and handed to updateConfig.
SaveWrite ==
  \E tid \in Tasks, ok \in BOOLEAN :
    LET t == tasks[tid] IN
    /\ t.pc \in {"writeFile", "writeSwap"}
    /\ Commit(tid,
         IF ok
         THEN LET cc == SpreadOverlay(currentConfig,
                          IF t.pc = "writeSwap" THEN OvSwap ELSE NoOverlay)
              IN Out(updateConfig([Ctl EXCEPT !.currentConfig = cc], cc),
                     World, Succeed(t))
         ELSE Out(Ctl, World, Fail(t, "HostError")))

\* ---------------------------------------------------- StudioController.close

\* if (this.child && !this.child.killed) this.child.kill("SIGTERM")
KillChild(c) == IF c.child = "running" THEN [c EXCEPT !.child = "killed"] ELSE c

\* close from `if (this.browser)` on.
CloseFromBrowser(c, w, t) ==
  IF c.browser # 0
  THEN Out(c, w, [t EXCEPT !.pc = "closeBrowser", !.tb = c.browser])
  ELSE Out(KillChild(c), w, Succeed(t))

\* close without its `if (this.context)` block.
closeBrowserOnly(c, w, t) == CloseFromBrowser(c, w, t)

close(c, w, t) ==
  IF c.context # 0
  THEN Out(c, w, [t EXCEPT !.pc = "closeContext", !.tc = c.context])
  ELSE CloseFromBrowser(c, w, t)

\* POST /api/close
ReqClose ==
  \E tid \in Tasks :
    /\ Arrives(tid)
    /\ Commit(tid, close(Ctl, World, NewTask("close")))

\* close: `await this.context.close()` settles.
CloseContext ==
  \E tid \in Tasks, ok \in BOOLEAN :
    LET t == tasks[tid] IN
    /\ t.pc = "closeContext"
    /\ Commit(tid,
         IF ok
         THEN CloseFromBrowser([Ctl EXCEPT !.context = 0],
                               CloseContextIn(World, t.tc), t)
         ELSE Out(Ctl, World, Fail(t, "HostError")))

\* close: `await this.browser.close()` settles; the child is signalled.
CloseBrowser ==
  \E tid \in Tasks, ok \in BOOLEAN :
    LET t == tasks[tid] IN
    /\ t.pc = "closeBrowser"
    /\ Commit(tid,
         IF ok
         THEN LET c1 == [Ctl EXCEPT !.browser = 0]
                  w1 == CloseBrowserIn(World, t.tb)
              IN Out(KillChild(c1), w1, Succeed(t))
         ELSE Out(Ctl, World, Fail(t, "HostError")))

\* ------------------------------------------------- the Session Controller

\* The controller as request tid found it when it arrived.
Before(tid) == IF tasks[tid].op = "idle" THEN Snapshot(Ctl) ELSE tasks[tid].at

\* This step ends request tid.
Completes(tid) == tasks[tid].pc # "done" /\ tasks'[tid].pc = "done"

\* This step is one of request tid.
StepOf(tid) == tasks'[tid] # tasks[tid] /\ tasks'[tid].op # "idle"

IsPrefix(s, t) == Len(s) <= Len(t) /\ SubSeq(t, 1, Len(s)) = s

\* C1: a launch or capture call that completes well has created a new
\* context, and closed the one held before, exactly when no context was held
\* or the resolved state id or viewport id differed from the active ids;
\* otherwise the context and the page are the ones held before.  No launch or
\* capture call, failing or not, replaces the context in any other case.
ContextRecreationPolicy ==
  [][\A tid \in Tasks :
       LET b == Before(tid)
           d == tasks'[tid]
           differs == \/ b.context = 0
                      \/ b.currentStateId # d.st.id
                      \/ b.currentViewportId # d.vp.id
       IN (Completes(tid) /\ d.op \in {"launch", "capture"}) =>
            /\ context' # b.context => d.resolved /\ differs
            /\ d.resp = "200" =>
                 IF differs
                 THEN /\ context' # b.context
                      /\ context' # 0 /\ contexts'[context'].open
                      /\ page' = context'
                      /\ b.context # 0 => ~contexts'[b.context].open
                 ELSE context' = b.context /\ page' = b.page]_vars

\* A capture that asked for another viewport than the active one is about to
\* take its shot in the context it created; the context it found is closed.
ContextRecreated ==
  \E tid \in Tasks :
    LET t == tasks[tid] IN
    /\ t.op = "capture" /\ t.pc = "capShot"
    /\ t.at.context # 0 /\ t.at.context # context
    /\ t.at.currentStateId = currentStateId
    /\ t.at.currentViewportId # currentViewportId
    /\ ContextOpen(World, context) /\ ~ContextOpen(World, t.at.context)

\* C2: close is accepted in every state; when it completes the controller
\* holds no browser and no context, the browser and the context it held are
\* closed, the context was closed before the browser was, and the spawned
\* process was signalled only with the browser closed.
CloseReachesIdle ==
  [][\A tid \in Tasks :
       LET b == Before(tid)
           d == tasks'[tid]
       IN (StepOf(tid) /\ d.op = "close") =>
            /\ (Completes(tid) /\ d.resp = "200") =>
                 /\ browser' = 0 /\ context' = 0 /\ child' # "running"
                 /\ b.browser # 0 => ~browsers'[b.browser]
                 /\ b.context # 0 => ~contexts'[b.context].open
            /\ \A x \in 1..MaxBrowsers :
                 (browsers[x] /\ ~browsers'[x]) =>
                    /\ context = 0
                    /\ b.context # 0 => ~contexts[b.context].open
            /\ (child = "running" /\ child' = "killed") =>
                 /\ browser' = 0
                 /\ b.browser # 0 => ~browsers'[b.browser]]_vars

\* close was called while recording, with a process spawned, and has completed.
ClosedWhileRecording ==
  \E tid \in Tasks :
    /\ tasks[tid].op = "close" /\ tasks[tid].resp = "200"
    /\ recordingFlow.active /\ child = "killed"
    /\ browser = 0 /\ context = 0
    /\ \A x \in 1..MaxBrowsers : ~browsers[x]

\* C3: the status reports connected or recording only while the controller
\* holds an open browser.
StatusOnlyWhileLaunched ==
  (getStatus.connected \/ getStatus.recording) => BrowserOpen(World, browser)

\* C4: a launch that finds a browser and a context held and asks for the
\* state and viewport that are active starts no browser, spawns no process
\* and creates no context or page, in any of its steps.
LaunchIdempotent ==
  [][\A tid \in Tasks :
       LET b == Before(tid)
           d == tasks'[tid]
       IN (/\ StepOf(tid) /\ d.op = "launch" /\ d.resolved
           /\ b.browser # 0 /\ b.context # 0
           /\ d.st.id = b.currentStateId /\ d.vp.id = b.currentViewportId) =>
            /\ browser' = browser /\ browsers' = browsers
            /\ child' = child /\ orphans' = orphans
            /\ context' = context /\ page' = page
            /\ contexts' = contexts]_vars

\* A launch that asked for the active state and viewport, with the browser
\* open, has reached its navigation to baseUrl on the context it found.
LaunchRepeated ==
  \E tid \in Tasks :
    LET t == tasks[tid] IN
    /\ t.op = "launch" /\ t.pc = "navBase"
    /\ t.at.browser # 0 /\ t.at.browser = browser
    /\ t.at.context # 0 /\ t.at.context = context
    /\ t.at.child = "running"
    /\ t.at.currentStateId = t.st.id /\ t.at.currentViewportId = t.vp.id

\* C5: when launch, goto, capture, validateSelector or startRecording fails,
\* the browser that was open is still open, and a recording that was active
\* is still active with the steps it had buffered.
FailureKeepsSession ==
  [][\A tid \in Tasks :
       LET b == Before(tid)
           d == tasks'[tid]
       IN (/\ Completes(tid) /\ d.err # None
           /\ d.op \in {"launch", "goto", "capture", "validateSelector",
                        "recordStart"}) =>
            /\ b.browser # 0 => browser' = b.browser /\ browsers'[b.browser]
            /\ b.recordingFlow.active =>
                 /\ recordingFlow'.active
                 /\ IsPrefix(b.recordingFlow.steps, recordingFlow'.steps)]_vars

\* C6: a request whose operation failed was answered with HTTP 500.
FailureAnswered500 ==
  \A tid \in Tasks :
    (tasks[tid].pc = "done" /\ tasks[tid].err # None) => tasks[tid].resp = "500"

\* C8: at most one process spawned by the controller is running, and none is
\* running that the controller does not hold.
AtMostOneProcess == Running(Ctl, World) <= 1 /\ orphans = 0

\* Every browser and context that is open is the one the controller holds.
NothingLeaked ==
  /\ \A x \in 1..MaxBrowsers : browsers[x] => x = browser
  /\ \A k \in 1..MaxContexts : contexts[k].open => k = context

\* C10: with requests overlapping, at most one browser is open and at most
\* one spawned process is running, and no browser, context or process runs
\* that the controller does not hold.
OneOperationAtATime ==
  /\ Cardinality({x \in 1..MaxBrowsers : browsers[x]}) <= 1
  /\ NothingLeaked
  /\ Running(Ctl, World) <= 1 /\ orphans = 0

\* C11: a goto request that finds no page held ends at once with the
\* NotLaunched error, answered 500, and changes nothing of the controller or
\* of the host; one that finds a page calls goto on that page with the url
\* resolved against baseUrl, and when the call settles well the page is there.
GotoNeedsPage ==
  [][\A tid \in Tasks :
       LET b == Before(tid)
           t == tasks[tid]
           d == tasks'[tid]
       IN (StepOf(tid) /\ d.op = "goto") =>
            IF b.page = 0
            THEN /\ d.pc = "done" /\ d.err = "NotLaunched" /\ d.resp = "500"
                 /\ UNCHANGED <<hostVars, ctlVars, currentConfig>>
            ELSE /\ t.op = "idle" =>
                      /\ d.pc = "gotoNav" /\ d.tp = b.page
                      /\ \E u \in Paths :
                           d.url = IF baseUrl = None THEN u ELSE baseUrl \o u
                      /\ UNCHANGED <<hostVars, ctlVars, currentConfig>>
                 /\ (t.op # "idle" /\ d.resp = "200") =>
                      /\ t.tp = page /\ pageUrl' = t.url
                      /\ page' = page /\ context' = context]_vars

\* A goto request was refused with nothing launched.
GotoRefused ==
  \E tid \in Tasks :
    /\ tasks[tid].op = "goto" /\ tasks[tid].err = "NotLaunched"
    /\ page = 0 /\ browser = 0 /\ child = None

\* Configurations updateConfig may be handed, with lists absent or given.
NextConfigs ==
  { [command |-> FALSE, baseUrl |-> None, states |-> ss, viewports |-> vs] :
      ss \in {<<>>, <<Auth>>}, vs \in {<<>>, <<Mobile, DEFAULT_VIEWPORT>>} }

\* C13: in every state of the session, updateConfig with any configuration
\* leaves a controller whose working configuration is that configuration with
\* an empty list of states or viewports replaced by the default one, and
\* whose browser, context, page, active ids, recorder flag, recording,
\* discovered urls and process are the ones before; and the step of a save
\* request that calls it changes nothing of the session or of the host.
UpdateConfigKeepsSession ==
  [][/\ \A nextConfig \in NextConfigs :
          LET c2 == updateConfig(Ctl, nextConfig)
          IN /\ c2.config.viewports =
                   IF nextConfig.viewports = <<>> THEN <<DEFAULT_VIEWPORT>>
                   ELSE nextConfig.viewports
             /\ c2.config.states =
                   IF nextConfig.states = <<>> THEN <<DEFAULT_STATE>>
                   ELSE nextConfig.states
             /\ c2.config.command = nextConfig.command
             /\ c2.config.baseUrl = nextConfig.baseUrl
             /\ c2.browser = browser /\ c2.context = context /\ c2.page = page
             /\ c2.currentStateId = currentStateId
             /\ c2.currentViewportId = currentViewportId
             /\ c2.recorderReady = recorderReady
             /\ c2.recordingFlow = recordingFlow
             /\ c2.discovered = discovered /\ c2.child = child
             /\ c2.baseUrl = baseUrl /\ c2.lastNavUrl = lastNavUrl
     /\ \A tid \in Tasks :
          (Completes(tid) /\ tasks'[tid].op = "save"
             /\ tasks'[tid].resp = "200") =>
            /\ config' = currentConfig'
            /\ UNCHANGED <<hostVars, browser, context, page, child, baseUrl,
                           recordingFlow, lastNavUrl, currentStateId,
                           currentViewportId, recorderReady, discovered>>]_vars

\* A save has called updateConfig under a live session that is recording, on
\* the mobile viewport, with a process spawned.
ConfigReplacedWhileLive ==
  \E tid \in Tasks :
    /\ tasks[tid].op = "save" /\ tasks[tid].resp = "200"
    /\ currentViewportId = "mobile" /\ child = "running"
    /\ BrowserOpen(World, browser) /\ PageOpen(World, page)
    /\ recordingFlow.active /\ recorderReady

Next ==
  \/ ReqLaunch
  \/ LaunchWaitForUrl
  \/ LaunchBrowser
  \/ EnsureContextClose
  \/ EnsureContextNewContext
  \/ EnsureContextNewPage
  \/ EnsureContextResize
  \/ EnsureContextSetup
  \/ LaunchNavBase
  \/ ReqGoto
  \/ GotoNav
  \/ ReqCapture
  \/ CaptureNav
  \/ CaptureSettle
  \/ CaptureDir
  \/ CaptureShot
  \/ ReqValidateSelector
  \/ ValidateCount
  \/ ReqStartRecording
  \/ RecorderExpose
  \/ RecorderEvaluate
  \/ ReqStopRecording
  \/ ReqSave
  \/ SaveWrite
  \/ ReqClose
  \/ CloseContext
  \/ CloseBrowser
  \/ Retire

\* One request at a time.
Spec == InitWith(0) /\ [][Next]_vars

\* Launch and close requests, some of which arrive while another is suspended
\* at an await.
NextConc ==
  \/ ReqLaunch
  \/ LaunchWaitForUrl
  \/ LaunchBrowser
  \/ EnsureContextClose
  \/ EnsureContextNewContext
  \/ EnsureContextNewPage
  \/ EnsureContextResize
  \/ EnsureContextSetup
  \/ LaunchNavBase
  \/ ReqClose
  \/ CloseContext
  \/ CloseBrowser
  \/ Retire

SpecConc == InitWith(MaxOverlaps) /\ [][NextConc]_vars

\* --------------------------------------------- the lists of the live config

\* Launch and capture requests, with the screen list of the live config.
NextScreens ==
  \/ ReqLaunch
  \/ LaunchWaitForUrl
  \/ LaunchBrowser
  \/ EnsureContextClose
  \/ EnsureContextNewContext
  \/ EnsureContextNewPage
  \/ EnsureContextResize
  \/ EnsureContextSetup
  \/ LaunchNavBase
  \/ ReqCapture
  \/ CaptureNav
  \/ CaptureSettle
  \/ CaptureDir
  \/ CaptureShot
  \/ Retire

SpecScreens ==
  /\ InitController(0) /\ run = NoRun
  /\ ~currentConfig.command
  /\ scope = [SessionScope EXCEPT !.screens = TRUE]
  /\ [][NextScreens]_vars

\* C12: the step that ends a capture request well appends to the screen list
\* of the live config one Screen, whose states and viewports are the state id
\* and the viewport id the session is then in, and keeps what was listed; any
\* other step of a capture request, a failing one too, leaves the list as it
\* was.
CaptureAppendsOneScreen ==
  [][\A tid \in Tasks :
       LET d == tasks'[tid]
       IN (StepOf(tid) /\ d.op = "capture") =>
            IF Completes(tid) /\ d.resp = "200"
            THEN /\ Len(lists'.screens) = Len(lists.screens) + 1
                 /\ SubSeq(lists'.screens, 1, Len(lists.screens)) = lists.screens
                 /\ lists'.screens[Len(lists'.screens)].states
                      = <<currentStateId'>>
                 /\ lists'.screens[Len(lists'.screens)].viewports
                      = <<currentViewportId'>>
                 /\ d.st.id = currentStateId' /\ d.vp.id = currentViewportId'
            ELSE lists'.screens = lists.screens]_vars

\* Two captures were listed, the first of one viewport and the second of the
\* other.
TwoScreensListed ==
  /\ Len(lists.screens) = 2
  /\ lists.screens[1].viewports # lists.screens[2].viewports
  /\ \E tid \in Tasks : tasks[tid].op = "capture" /\ tasks[tid].resp = "200"

\* Launch and recording requests under a configuration without states (no
\* state of it has a setup hook), with the flow list of the live config.
NextFlows ==
  \/ ReqLaunch
  \/ LaunchWaitForUrl
  \/ LaunchBrowser
  \/ EnsureContextClose
  \/ EnsureContextNewContext
  \/ EnsureContextNewPage
  \/ EnsureContextResize
  \/ LaunchNavBase
  \/ ReqStartRecording
  \/ RecorderExpose
  \/ RecorderEvaluate
  \/ ReqStopRecording
  \/ Retire

SpecFlows ==
  /\ InitOf({PlainConfig}, 0) /\ run = NoRun
  /\ scope = [SessionScope EXCEPT !.flows = TRUE]
  /\ [][NextFlows]_vars

\* C14: stopRecording returns the recording, with the steps it buffered, with
\* state and viewport set to the active ids, when one is active, and nothing
\* otherwise; the controller it leaves is not recording, so that calling it
\* again returns nothing; and the request answers 200, after appending what
\* was returned to the flow list of the live config, or leaving the list as
\* it was when nothing was returned.
StopReturnsStampedFlow ==
  [][LET r == stopRecording(Ctl)
         stamped == [active |-> TRUE, id |-> recordingFlow.id,
                     steps |-> recordingFlow.steps,
                     state |-> currentStateId, viewport |-> currentViewportId]
     IN /\ r.flow = IF recordingFlow.active THEN stamped ELSE NoFlow
        /\ ~r.c.recordingFlow.active
        /\ stopRecording(r.c).flow = NoFlow
        /\ \A tid \in Tasks :
             (StepOf(tid) /\ tasks'[tid].op = "recordStop") =>
               /\ Completes(tid) /\ tasks'[tid].resp = "200"
               /\ ~recordingFlow'.active
               /\ lists'.flows = IF recordingFlow.active
                                 THEN Append(lists.flows, stamped)
                                 ELSE lists.flows]_vars

\* A recording made on the mobile viewport, with a step buffered, was stopped
\* and is listed; the controller is not recording.
FlowListed ==
  /\ Len(lists.flows) = 1
  /\ lists.flows[1].steps # <<>>
  /\ lists.flows[1].state = "default" /\ lists.flows[1].viewport = "mobile"
  /\ ~recordingFlow.active
  /\ \E tid \in Tasks : tasks[tid].op = "recordStop"

\* ------------------------------------------------------------ the recorder

\* Launch, goto and recording requests under a configuration without states,
\* with the inside of the page, the clicks of the user, the navigations of
\* frames and the discovered urls.
NextRecorder ==
  \/ ReqLaunch
  \/ LaunchWaitForUrl
  \/ LaunchBrowser
  \/ EnsureContextClose
  \/ EnsureContextNewContext
  \/ EnsureContextNewPage
  \/ EnsureContextResize
  \/ LaunchNavBase
  \/ ReqGoto
  \/ GotoNav
  \/ ReqStartRecording
  \/ RecorderExpose
  \/ RecorderEvaluate
  \/ ReqStopRecording
  \/ Click
  \/ SubframeNavigated
  \/ Retire

SpecRecorder ==
  /\ InitOf({PlainConfig}, 0) /\ run = NoRun
  /\ scope = [SessionScope EXCEPT !.page = TRUE, !.steps = MaxSteps + 2]
  /\ [][NextRecorder]_vars

\* The awaited navigation of request tid, of the page the controller holds,
\* settles well in this step.
MainFrameNavigates(tid) ==
  /\ tasks[tid].pc \in {"navBase", "gotoNav", "capNav"}
  /\ tasks[tid].tp = page
  /\ tasks'[tid].pc = "capSettle" \/ tasks'[tid].resp = "200"

\* C15: while a recording goes on, a main-frame navigation to u appends the
\* step goto u or nothing, and it appends the step exactly when u is not the
\* url of the navigation before, which is the url the page is at (a page made
\* during the recording has made no navigation yet: it is at about:blank, and
\* the navigation before is that of the page held before); a step without a
\* main-frame navigation (a navigation of another frame, a click, a request)
\* appends no goto step; and with no recording active no step is appended.
NavigationRecordedOnChange ==
  [][LET steps == recordingFlow.steps
         starts == \E tid \in Tasks : tasks[tid].op = "idle"
                                       /\ tasks'[tid].op = "recordStart"
     IN /\ (recordingFlow.active /\ recordingFlow'.active /\ ~starts) =>
             IF \E tid \in Tasks : MainFrameNavigates(tid)
             THEN \A tid \in Tasks : MainFrameNavigates(tid) =>
                    LET u == tasks[tid].url
                        appended == Append(steps, [type |-> "goto", arg |-> u])
                    IN /\ recordingFlow'.steps \in {steps, appended}
                       /\ pageUrl # "about:blank" =>
                            (recordingFlow'.steps = appended <=> u # pageUrl)
             ELSE \/ recordingFlow'.steps = steps
                  \/ recordingFlow'.steps =
                       Append(steps, [type |-> "click", arg |-> "selector"])
        /\ (~recordingFlow.active /\ ~starts) => recordingFlow' = recordingFlow
    ]_vars

\* A recording holds goto /a, goto the base url, goto /a: the url recorded
\* first is recorded again after another one.
UrlRecordedAgain ==
  /\ recordingFlow.active /\ Len(recordingFlow.steps) = 3
  /\ \A i \in 1..3 : recordingFlow.steps[i].type = "goto"
  /\ recordingFlow.steps[1].arg = AppUrl \o "/a"
  /\ recordingFlow.steps[2].arg = AppUrl
  /\ recordingFlow.steps[3].arg = AppUrl \o "/a"

\* C16: a click of the user during a recording whose recorder is installed
\* (recorderReady) appends exactly one click step.
ClickRecordedOnce ==
  [][(dom'.clicks = dom.clicks + 1 /\ recordingFlow.active /\ recorderReady) =>
       recordingFlow'.steps =
          Append(recordingFlow.steps, [type |-> "click", arg |-> "selector"])
    ]_vars

\* C17: when a launch or capture request for another viewport than the
\* active one has found a recording active that had recorded a click, has
\* replaced the page and ends well, the recorder is installed in the page the
\* controller then holds: the bridge function is exposed in it.
RecorderFollowsContext ==
  [][\A tid \in Tasks :
       LET b == Before(tid)
           d == tasks'[tid]
       IN (/\ Completes(tid) /\ d.op \in {"launch", "capture"}
           /\ d.resp = "200"
           /\ b.recordingFlow.active /\ recordingFlow'.active
           /\ \E i \in 1..Len(b.recordingFlow.steps) :
                b.recordingFlow.steps[i].type = "click"
           /\ b.currentViewportId # None
           /\ b.currentViewportId # currentViewportId'
           /\ b.page # 0 /\ page' # b.page) =>
            recorderReady' /\ dom'.exposed]_vars

\* ------------------------------------------- installRecorder: getSelector

MaxTextLength == 80

RECURSIVE Chars(_)
Chars(n) == IF n = 0 THEN "" ELSE "x" \o Chars(n - 1)

\* String.prototype.toLowerCase, of the tag names.
toLowerCase(tagName) ==
  CASE tagName = "BUTTON" -> "button"
    [] tagName = "DIV" -> "div"

\* textContent is body, with white space around it or not; trim gives body.
trim(text) == text.body

\* An attribute is absent (getAttribute gives null: None), empty, or has a
\* value.  The class attribute is given as what split(" ") makes of it, the
\* absent one as <<>>.
Elements ==
  { [testId |-> ti, role |-> r, ariaLabel |-> al,
     textContent |-> [pad |-> p, body |-> b], id |-> i, class |-> cl,
     tagName |-> tg] :
      ti \in {None, "", "save"}, r \in {None, "", "button"},
      al \in {None, "", "Save"}, p \in BOOLEAN,
      b \in {"", "Go", Chars(MaxTextLength - 1), Chars(MaxTextLength)},
      i \in {"", "main"},
      cl \in {<<>>, <<"">>, <<"", "btn", "primary">>},
      tg \in {"BUTTON", "DIV"} }

\* A SelectorSpec: the keys it has not are None.
NoSelector == [testId |-> None, role |-> None, name |-> None, text |-> None,
               css |-> None]

\* A string that is neither null nor empty.
Truthy(x) == x \notin {None, ""}

\* (getAttribute("class") || "").split(" ").filter(Boolean)[0]
FirstClass(el) ==
  LET parts == IF el.class = <<>> THEN <<"">> ELSE el.class
      full == {k \in 1..Len(parts) : parts[k] # ""}
  IN IF full = {} THEN None ELSE parts[Min(full)]

\* getSelector asking for the role before the test id.
getSelectorRoleFirst(el) ==
  LET name == IF Truthy(el.ariaLabel) THEN el.ariaLabel
              ELSE trim(el.textContent)
      text == trim(el.textContent)
      className == FirstClass(el)
  IN IF Truthy(el.role)
     THEN [NoSelector EXCEPT !.role = el.role, !.name = name]
     ELSE IF Truthy(el.testId) THEN [NoSelector EXCEPT !.testId = el.testId]
     ELSE IF text # "" /\ Len(text) < MaxTextLength
     THEN [NoSelector EXCEPT !.text = text]
     ELSE IF el.id # "" THEN [NoSelector EXCEPT !.css = "#" \o el.id]
     ELSE IF className # None
     THEN [NoSelector EXCEPT
             !.css = toLowerCase(el.tagName) \o "." \o className]
     ELSE [NoSelector EXCEPT !.css = toLowerCase(el.tagName)]

getSelector(el) ==
  LET name == IF Truthy(el.ariaLabel) THEN el.ariaLabel
              ELSE trim(el.textContent)
      text == trim(el.textContent)
      className == FirstClass(el)
  IN IF Truthy(el.testId) THEN [NoSelector EXCEPT !.testId = el.testId]
     ELSE IF Truthy(el.role)
     THEN [NoSelector EXCEPT !.role = el.role, !.name = name]
     ELSE IF text # "" /\ Len(text) < MaxTextLength
     THEN [NoSelector EXCEPT !.text = text]
     ELSE IF el.id # "" THEN [NoSelector EXCEPT !.css = "#" \o el.id]
     ELSE IF className # None
     THEN [NoSelector EXCEPT
             !.css = toLowerCase(el.tagName) \o "." \o className]
     ELSE [NoSelector EXCEPT !.css = toLowerCase(el.tagName)]

\* The click listener derives the selector of the element clicked.
DeriveSelector ==
  \E el \in Elements :
    /\ calc = NoCalc
    /\ calc' = [fn |-> "getSelector", arg |-> el, out |-> getSelector(el)]
    /\ UNCHANGED <<hostVars, serverVars, ctlVars, run, scope>>

SpecSelector ==
  /\ InitOf({PlainConfig}, 0) /\ run = NoRun /\ scope = SessionScope
  /\ [][DeriveSelector]_vars

\* The selector the preference order gives, an attribute counting as had when
\* has(attribute) holds.
Preferred(el, has(_)) ==
  LET text == el.textContent.body
      tag == IF el.tagName = "BUTTON" THEN "button" ELSE "div"
      classes == {k \in 1..Len(el.class) : el.class[k] # ""}
  IN IF has(el.testId) THEN [NoSelector EXCEPT !.testId = el.testId]
     ELSE IF has(el.role)
     THEN [NoSelector EXCEPT
             !.role = el.role,
             !.name = IF el.ariaLabel \notin {None, ""} THEN el.ariaLabel
                      ELSE text]
     ELSE IF text # "" /\ Len(text) < 80 THEN [NoSelector EXCEPT !.text = text]
     ELSE IF el.id # "" THEN [NoSelector EXCEPT !.css = "#" \o el.id]
     ELSE IF classes # {}
     THEN [NoSelector EXCEPT
             !.css = tag \o "." \o
                     el.class[CHOOSE k \in classes :
                                \A j \in classes : k <= j]]
     ELSE [NoSelector EXCEPT !.css = tag]

Present(x) == x # None

PresentAndFilled(x) == x # None /\ x # ""

\* C18 as stated: the selector derived is the first applicable of testId (the
\* data-testid attribute is present), role and name (the role attribute is
\* present), text, #id, tag.firstClass, tag.
SelectorByPresence ==
  calc.fn = "getSelector" => calc.out = Preferred(calc.arg, Present)

\* C18: the selector derived is the first applicable of testId (data-testid is
\* present and not empty), role and name (role is present and not empty; the
\* name is the aria-label if not empty, the trimmed text otherwise), text (the
\* trimmed text is not empty and shorter than 80), #id, tag.firstClass, tag;
\* and it has one variant only.
SelectorByPreference ==
  calc.fn = "getSelector" =>
    /\ calc.out = Preferred(calc.arg, PresentAndFilled)
    /\ Cardinality({v \in {"testId", "role", "text", "css"} :
                      calc.out[v] # None}) = 1

\* The selector of an element with an empty data-testid and a role, with a
\* text of 79 characters in white space, was derived.
EmptyTestIdSkipped ==
  /\ calc.fn = "getSelector"
  /\ calc.arg.testId = "" /\ calc.arg.role = "button"
  /\ calc.arg.ariaLabel = None
  /\ calc.arg.textContent = [pad |-> TRUE, body |-> Chars(79)]
  /\ calc.out.role = "button" /\ calc.out.name = Chars(79)

\* ------------------------------------------------------------- runCapture

matchesStateUnfiltered(screen, state) == TRUE

matchesState(screen, state) ==
  \/ Len(screen.states) = 0
  \/ \E i \in 1..Len(screen.states) : screen.states[i] = state.id

matchesViewport(screen, viewport) ==
  \/ Len(screen.viewports) = 0
  \/ \E i \in 1..Len(screen.viewports) : screen.viewports[i] = viewport.id

\* The state and the viewport the run is working with: those of the matrix
\* loops, or those runFlow resolved.
RunState(r) ==
  IF r.inFlow THEN getState(r.config, r.config.flows[r.fi].state)
  ELSE r.config.states[r.si]

RunViewport(r) ==
  IF r.inFlow THEN getViewport(r.config, r.config.flows[r.fi].viewport)
  ELSE r.config.viewports[r.vi]

\* The sequences of a sequence, one after the other.
RECURSIVE Concat(_)
Concat(ss) == IF ss = <<>> THEN <<>> ELSE Head(ss) \o Concat(Tail(ss))

\* expandTemplate's combos: the first key varies slowest.  A combo is the
\* values of the keys, in the order of the keys.
RECURSIVE Combos(_)
Combos(entries) ==
  IF entries = <<>> THEN << <<>> >>
  ELSE LET n == Len(entries)
           combos == Combos(SubSeq(entries, 1, n - 1))
           values == entries[n].values
       IN Concat([i \in 1..Len(combos) |->
                    [j \in 1..Len(values) |-> Append(combos[i], values[j])]])

\* The text of a url given by its parts.
RECURSIVE Render(_)
Render(url) ==
  IF url = <<>> THEN ""
  ELSE LET part == Head(url)
           text == IF part.kind = "lit" THEN part.text
                   ELSE IF part.kind = "colon" THEN ":" \o part.text
                   ELSE "{" \o part.text \o "}"
       IN text \o Render(Tail(url))

\* A value put into the url, as a part of it: a value that reads as the
\* placeholder of a key of entries is one more such placeholder in the url.
Token(value, entries) ==
  IF \E k \in 1..Len(entries) : value = ":" \o entries[k].key
  THEN [kind |-> "colon",
        text |-> entries[CHOOSE k \in 1..Len(entries) :
                           value = ":" \o entries[k].key].key]
  ELSE IF \E k \in 1..Len(entries) : value = "{" \o entries[k].key \o "}"
  THEN [kind |-> "brace",
        text |-> entries[CHOOSE k \in 1..Len(entries) :
                           value = "{" \o entries[k].key \o "}"].key]
  ELSE [kind |-> "lit", text |-> value]

\* url.replace of :key and of {key}, everywhere in url, by value.
ReplaceKey(url, key, value, entries) ==
  [p \in 1..Len(url) |->
     IF url[p].kind # "lit" /\ url[p].text = key THEN Token(value, entries)
     ELSE url[p]]

\* The loop over the entries of a combo from entry k on: each replaces in the
\* url the replacements before it left.
RECURSIVE Replaced(_, _, _, _)
Replaced(url, entries, combo, k) ==
  IF k > Len(entries) THEN url
  ELSE Replaced(ReplaceKey(url, entries[k].key, combo[k], entries),
                entries, combo, k + 1)

\* The url of a combo.
Fill(template, entries, combo) == Render(Replaced(template, entries, combo, 1))

\* utils.ts expandTemplate
expandTemplate(template, params) ==
  IF params = <<>> THEN <<Fill(template, <<>>, <<>>)>>
  ELSE LET combos == Combos(params)
       IN [i \in 1..Len(combos) |-> Fill(template, params, combos[i])]

\* What expandTemplate is applied to: templates of up to MaxParts parts, and
\* params of up to two keys with up to MaxValues values each; a value may
\* read as a placeholder.
MaxParts == 2
MaxValues == 2

SeqsUpTo(S, n) == UNION {[1..k -> S] : k \in 0..n}

Templates ==
  SeqsUpTo({[kind |-> "lit", text |-> "/x"],
            [kind |-> "colon", text |-> "id"],
            [kind |-> "brace", text |-> "id"],
            [kind |-> "colon", text |-> "lang"],
            [kind |-> "brace", text |-> "lang"]}, MaxParts)

ParamSets ==
  LET keys == {"id", "lang"}
      valueLists == SeqsUpTo({"a", "b", ":lang"}, MaxValues)
  IN {<<>>}
     \cup {<<[key |-> k, values |-> vs]>> : k \in keys, vs \in valueLists}
     \cup {<<[key |-> k[1], values |-> vs], [key |-> k[2], values |-> ws]>> :
             k \in {<<"id", "lang">>, <<"lang", "id">>},
             vs \in valueLists, ws \in valueLists}

\* expandTemplate is called.
ExpandTemplate ==
  \E template \in Templates, params \in ParamSets :
    /\ calc = NoCalc
    /\ calc' = [fn |-> "expandTemplate",
                arg |-> [template |-> template, params |-> params],
                out |-> expandTemplate(template, params)]
    /\ UNCHANGED <<hostVars, serverVars, ctlVars, run, scope>>

SpecTemplate ==
  /\ InitOf({PlainConfig}, 0) /\ run = NoRun /\ scope = SessionScope
  /\ [][ExpandTemplate]_vars

\* The product of the lengths of the value lists of params from entry j on.
RECURSIVE Stride(_, _)
Stride(params, j) ==
  IF j > Len(params) THEN 1
  ELSE Len(params[j].values) * Stride(params, j + 1)

\* The value of the key of entry j in combination i of the cartesian product,
\* the first key varying slowest.
ValueAt(params, j, i) ==
  params[j].values[(((i - 1) \div Stride(params, j + 1))
                      % Len(params[j].values)) + 1]

\* The template with every :key and {key} of a key of params replaced by the
\* value of the key in combination i.
Substituted(template, params, i) ==
  Render([p \in 1..Len(template) |->
    IF /\ template[p].kind # "lit"
       /\ \E j \in 1..Len(params) : params[j].key = template[p].text
    THEN [kind |-> "lit",
          text |-> ValueAt(params,
                           CHOOSE j \in 1..Len(params) :
                             params[j].key = template[p].text, i)]
    ELSE template[p]])

\* C22: expandTemplate with params returns one url for each combination of
\* the cartesian product of the value lists, the first key varying slowest
\* and the values in their order, each url being the template with every :key
\* and {key} replaced by the value of the combination; without params it
\* returns the template alone.
ExpandIsCartesianProduct ==
  calc.fn = "expandTemplate" =>
    LET template == calc.arg.template
        params == calc.arg.params
    IN IF params = <<>> THEN calc.out = <<Render(template)>>
       ELSE /\ Len(calc.out) = Stride(params, 1)
            /\ \A i \in 1..Len(calc.out) :
                 calc.out[i] = Substituted(template, params, i)

\* runner.ts resolveScreenUrls, with every url of a template tagged.
resolveScreenUrlsAllTagged(screen) ==
  IF screen.url # None THEN <<[url |-> screen.url, variantId |-> None]>>
  ELSE IF screen.template # <<>>
  THEN LET urls == expandTemplate(screen.template, screen.params)
       IN IF Len(urls) = 0
          THEN <<[url |-> Fill(screen.template, <<>>, <<>>),
                  variantId |-> None]>>
          ELSE [i \in 1..Len(urls) |->
                  [url |-> urls[i], variantId |-> "variant-" \o ToString(i)]]
  ELSE <<[url |-> "/", variantId |-> None]>>

\* runner.ts resolveScreenUrls
resolveScreenUrls(screen) ==
  IF screen.url # None THEN <<[url |-> screen.url, variantId |-> None]>>
  ELSE IF screen.template # <<>>
  THEN LET urls == expandTemplate(screen.template, screen.params)
       IN IF Len(urls) <= 1
          THEN <<[url |-> IF urls # <<>> THEN urls[1]
                          ELSE Fill(screen.template, <<>>, <<>>),
                  variantId |-> None]>>
          ELSE [i \in 1..Len(urls) |->
                  [url |-> urls[i], variantId |-> "variant-" \o ToString(i)]]
  ELSE <<[url |-> "/", variantId |-> None]>>

\* capturePage: baseId
BaseId(screen, variant) ==
  IF variant.variantId # None THEN screen.id \o "-" \o variant.variantId
  ELSE screen.id

\* manifest.screens.unshift(entry)
unshiftEntry(entries, entry) == <<entry>> \o entries

\* manifest.screens.push(entry)
pushEntry(entries, entry) == Append(entries, entry)

\* capturePage's manifest entry.
Entry(baseId, name, state, viewport) ==
  [id |-> baseId \o "-" \o state.id \o "-" \o viewport.id,
   name |-> name,
   width |-> viewport.width, height |-> viewport.height,
   viewportId |-> viewport.id, stateId |-> state.id,
   flowId |-> None, stepIndex |-> -1]

\* The finally block from `await cleanup()` on, the manifest being returned
\* whether an error is pending or not.
FinishReturning(r) ==
  [r EXCEPT !.proc = IF r.child /\ r.proc = "running" THEN "killed" ELSE @,
            !.pc = "returned"]

\* The finally block from `await cleanup()` on: the process is signalled if
\* runCapture holds it; then the return, or the pending error is thrown again.
Finish(r) ==
  [r EXCEPT !.proc = IF r.child /\ r.proc = "running" THEN "killed" ELSE @,
            !.pc = IF r.error = None THEN "returned" ELSE "thrown"]

\* The try block is left, by a throw (err) or by the return (None): the
\* finally block up to its first await.
Finally(r, err) ==
  IF r.browser # None THEN [r EXCEPT !.error = err, !.pc = "browserClose"]
  ELSE Finish([r EXCEPT !.error = err])

\* runFlow's loop from step r.ti on, up to the next await.
NextStep(r) ==
  IF r.ti <= Len(r.config.flows[r.fi].steps) THEN [r EXCEPT !.pc = "flowStep"]
  ELSE [r EXCEPT !.pc = "contextClose"]

\* utils.ts uniqueStrings: Array.from(new Set(values)), each value where
\* it stands first.
uniqueStrings(values) ==
  LET first == {i \in 1..Len(values) :
                  \A j \in 1..(i - 1) : values[j] # values[i]}
      Nth(n) == CHOOSE i \in first : Cardinality({j \in first : j < i}) = n - 1
  IN [n \in 1..Cardinality(first) |-> values[Nth(n)]]

\* url.startsWith("about:"), of the urls a frame navigates to.
StartsWithAbout(url) == url = "about:blank"

\* Set.prototype.add, the Set being the sequence of its values as inserted.
SetAdd(values, value) ==
  IF \E i \in 1..Len(values) : values[i] = value THEN values
  ELSE Append(values, value)

\* The listener of registerDiscovery, without the test of the url.
registerDiscoveryAll(discoveredUrls, url) == SetAdd(discoveredUrls, url)

\* runner.ts registerDiscovery: the "framenavigated" listener of a page of
\* the run, for a frame that navigated to url.
registerDiscovery(discoveredUrls, url) ==
  IF url # "" /\ ~StartsWithAbout(url) THEN SetAdd(discoveredUrls, url)
  ELSE discoveredUrls

\* The frames of the page of the run navigate to frames, one after the
\* other.
RECURSIVE Framed(_, _)
Framed(r, frames) ==
  IF frames = <<>> THEN r
  ELSE Framed([r EXCEPT
                 !.discovered = registerDiscovery(@, Head(frames)),
                 !.framed = @ \cup {Head(frames)}],
              Tail(frames))

\* What navigates while a page.goto of a run settles: the main frame, and
\* then an iframe or none.  Left out of a run whose urls are not looked at.
BatchFrames ==
  IF scope.page
  THEN { <<main>> \o sub : main \in {AppUrl \o "/a", AppUrl \o "/b"},
                           sub \in {<<>>} \cup {<<f>> : f \in FrameUrls} }
  ELSE {<<>>}

\* The loop over config.flows from flow r.fi on; after it
\* manifest.discoveredUrls is set, and the return.
NextFlow(r) ==
  IF r.fi <= Len(r.config.flows)
  THEN [r EXCEPT !.inFlow = TRUE, !.ti = 1, !.stepIndex = 0, !.ran = <<>>,
                 !.pc = "newContext"]
  ELSE Finally([r EXCEPT !.discoveredUrls = uniqueStrings(r.discovered)],
               None)

\* The loops over viewports and screens, a screen whose filter names no
\* state of the configuration being taken under the first state.
NextScreenOrFirst(r) ==
  LET stale(screen) ==
        /\ Len(screen.states) > 0
        /\ \A i \in 1..Len(screen.states), j \in 1..Len(r.config.states) :
             screen.states[i] # r.config.states[j].id
      matching == {k \in r.ki..Len(r.config.screens) :
                     /\ \/ matchesState(r.config.screens[k], RunState(r))
                        \/ stale(r.config.screens[k]) /\ r.si = 1
                     /\ matchesViewport(r.config.screens[k], RunViewport(r))}
  IN IF matching # {}
     THEN [r EXCEPT !.ki = Min(matching), !.ui = 1, !.pc = "goto"]
     ELSE IF r.vi < Len(r.config.viewports)
          THEN [r EXCEPT !.vi = @ + 1, !.pc = "resize"]
          ELSE [r EXCEPT !.pc = "contextClose"]

\* The loops over viewports and screens from screen r.ki on, up to the next
\* await.
NextScreen(r) ==
  LET matching == {k \in r.ki..Len(r.config.screens) :
                     /\ matchesState(r.config.screens[k], RunState(r))
                     /\ matchesViewport(r.config.screens[k], RunViewport(r))}
  IN IF matching # {}
     THEN [r EXCEPT !.ki = Min(matching), !.ui = 1, !.pc = "goto"]
     ELSE IF r.vi < Len(r.config.viewports)
          THEN [r EXCEPT !.vi = @ + 1, !.pc = "resize"]
          ELSE [r EXCEPT !.pc = "contextClose"]

\* ensureAppRunning has returned; createManifest; chromium.launch is called.
AppRunning(r) == [r EXCEPT !.child = (r.proc # None), !.pc = "chromiumLaunch"]

\* runner.ts ensureAppRunning up to its await.
runnerEnsureAppRunning(r) ==
  LET r1 == IF r.config.command THEN [r EXCEPT !.proc = "running"] ELSE r
  IN IF r.baseUrl # None THEN [r1 EXCEPT !.pc = "waitForUrl"]
     ELSE AppRunning(r1)

Batch(r) ==
  run' = r /\ UNCHANGED <<hostVars, serverVars, ctlVars, scope, calc>>

\* runCapture: `await ensureDir(...)` settles, twice.
BatchEnsureDir ==
  \E ok \in BOOLEAN :
    /\ run.pc = "ensureDir"
    /\ Batch(IF ~ok THEN [run EXCEPT !.error = "HostError", !.pc = "thrown"]
             ELSE IF run.dirs = 0 THEN [run EXCEPT !.dirs = 1]
             ELSE runnerEnsureAppRunning([run EXCEPT !.dirs = 2]))

\* ensureAppRunning: `await waitForUrl(baseUrl, logger)` settles.
BatchWaitForUrl ==
  \E answers \in PollAnswers :
    /\ run.pc = "waitForUrl"
    /\ Batch(IF runnerWaitForUrl(answers) = "ok"
             THEN AppRunning([run EXCEPT !.answers = answers])
             ELSE [run EXCEPT !.answers = answers,
                              !.error = "StartupTimeout", !.pc = "thrown"])

\* runCapture: `browser = await chromium.launch(...)` settles.
BatchLaunch ==
  \E ok \in BOOLEAN :
    /\ run.pc = "chromiumLaunch"
    /\ Batch(IF ok THEN [run EXCEPT !.browser = "open", !.pc = "newContext"]
             ELSE Finally(run, "HostError"))

\* runCapture, runFlow: `await browser.newContext(...)` settles.
BatchNewContext ==
  \E ok \in BOOLEAN :
    /\ run.pc = "newContext"
    /\ Batch(IF ok THEN [run EXCEPT !.open = @ + 1,
                                    !.opened = Append(@, RunState(run).id),
                                    !.pc = "newPage"]
             ELSE Finally(run, "HostError"))

\* runCapture, runFlow: `await context.newPage()` settles.
BatchNewPage ==
  \E ok \in BOOLEAN :
    /\ run.pc = "newPage"
    /\ Batch(IF ok
             THEN [run EXCEPT !.pc = IF RunState(run).setup THEN "setup"
                                     ELSE "resize"]
             ELSE Finally(run, "HostError"))

\* runCapture, runFlow: `await state.setup(page)` settles.
BatchSetup ==
  \E ok \in BOOLEAN :
    /\ run.pc = "setup"
    /\ Batch(IF ok THEN [run EXCEPT !.setups = Append(@, RunState(run).id),
                                    !.pc = "resize"]
             ELSE Finally(run, "HostError"))

\* runCapture, runFlow: `await page.setViewportSize(...)` settles.
BatchResize ==
  \E ok \in BOOLEAN :
    /\ run.pc = "resize"
    /\ LET r == [run EXCEPT !.resizes =
                      Append(@, [state |-> RunState(run).id,
                                 viewport |-> RunViewport(run).id])]
       IN Batch(IF ~ok THEN Finally(run, "HostError")
                ELSE IF run.inFlow THEN NextStep(r)
                ELSE NextScreen([r EXCEPT !.ki = 1]))

\* runCapture: `await page.goto(targetUrl, ...)` settles.
BatchGoto ==
  \E ok \in BOOLEAN, frames \in BatchFrames :
    /\ run.pc = "goto"
    /\ Batch(IF ok
             THEN [Framed(run, frames) EXCEPT !.navs = @ + 1,
                     !.pc = IF run.config.screens[run.ki].ready THEN "ready"
                            ELSE "settle"]
             ELSE Finally(run, "NavigationFailure"))

\* runCapture: `await waitForReady(page, screen.ready)` settles.
BatchReady ==
  \E ok \in BOOLEAN :
    /\ run.pc = "ready"
    /\ Batch(IF ok THEN [run EXCEPT !.pc = "settle"]
             ELSE Finally(run, "ReadyTimeout"))

\* runCapture: sleep(150) is over; capturePage calls page.screenshot.
BatchSettle ==
  /\ run.pc = "settle"
  /\ Batch([run EXCEPT !.pc = "shot"])

\* capturePage: `await page.screenshot(...)` settles; the entry is pushed, and
\* the loop over the url variants of the screen goes on.
BatchShot ==
  \E ok \in BOOLEAN :
    LET screen == run.config.screens[run.ki]
        screenUrls == resolveScreenUrls(screen)
        r == [run EXCEPT
                !.shots = @ + 1,
                !.manifest.screens =
                   pushEntry(@, Entry(BaseId(screen, screenUrls[run.ui]),
                                      screen.name,
                                      RunState(run), RunViewport(run)))]
    IN /\ run.pc = "shot"
       /\ Batch(IF ~ok THEN Finally(run, "HostError")
                ELSE IF run.ui < Len(screenUrls)
                THEN [r EXCEPT !.ui = @ + 1, !.pc = "goto"]
                ELSE NextScreen([r EXCEPT !.ki = @ + 1]))

\* runFlow, case "capture": the entry of the capture step, stepIndex being
\* the counter of the flow; with 1 added to the stepIndex written.
captureEntryOneBased(flow, step, stepIndex, state, viewport) ==
  [Entry(flow.id \o "-step-" \o ToString(stepIndex + 1),
         IF step.name # None THEN step.name
         ELSE flow.name \o " Step " \o ToString(stepIndex + 1),
         state, viewport)
     EXCEPT !.flowId = flow.id, !.stepIndex = stepIndex + 1]

captureEntry(flow, step, stepIndex, state, viewport) ==
  [Entry(flow.id \o "-step-" \o ToString(stepIndex + 1),
         IF step.name # None THEN step.name
         ELSE flow.name \o " Step " \o ToString(stepIndex + 1),
         state, viewport)
     EXCEPT !.flowId = flow.id, !.stepIndex = stepIndex]

\* runFlow: the switch on step.type, the awaits of the step having settled;
\* with the counter advanced by every step.
runStepCountingAll(r, flow, step) ==
  IF step.type = "capture"
  THEN [r EXCEPT
          !.shots = @ + 1,
          !.manifest.screens =
             pushEntry(@, captureEntry(flow, step, r.stepIndex,
                                       RunState(r), RunViewport(r))),
          !.stepIndex = @ + 1]
  ELSE [r EXCEPT !.navs = IF step.type = "goto" THEN @ + 1 ELSE @,
                 !.stepIndex = @ + 1]

runStep(r, flow, step) ==
  IF step.type = "capture"
  THEN [r EXCEPT
          !.shots = @ + 1,
          !.manifest.screens =
             pushEntry(@, captureEntry(flow, step, r.stepIndex,
                                       RunState(r), RunViewport(r))),
          !.stepIndex = @ + 1]
  ELSE [r EXCEPT !.navs = IF step.type = "goto" THEN @ + 1 ELSE @]

\* runFlow: the await of step r.ti settles; with the loop going on after a
\* step that failed.
BatchFlowStepGoesOn ==
  \E ok \in BOOLEAN :
    LET flow == run.config.flows[run.fi]
        step == flow.steps[run.ti]
    IN /\ run.pc = "flowStep"
       /\ Batch(NextStep([IF ok THEN runStep(run, flow, step)
                          ELSE [run EXCEPT !.error = "StepFailure"]
                            EXCEPT !.ran = Append(@, run.ti),
                                   !.ti = @ + 1]))

\* runFlow: the await of step r.ti settles.
BatchFlowStep ==
  \E ok \in BOOLEAN, frames \in BatchFrames :
    LET flow == run.config.flows[run.fi]
        step == flow.steps[run.ti]
        r == IF step.type = "goto" THEN Framed(run, frames) ELSE run
    IN /\ run.pc = "flowStep"
       /\ Batch(IF ~ok THEN Finally(run, "StepFailure")
                ELSE NextStep([runStep(r, flow, step)
                                 EXCEPT !.ran = Append(@, run.ti),
                                        !.ti = @ + 1]))

\* runFlow: the flow entry returned; without the steps.
flowEntryEmpty(flow) == [id |-> flow.id, name |-> flow.name, steps |-> <<>>]

flowEntry(flow) == [id |-> flow.id, name |-> flow.name, steps |-> flow.steps]

\* runCapture, runFlow: `await context.close()` settles, the context
\* staying open.
BatchContextCloseNot ==
  \E ok \in BOOLEAN :
    LET r == run
    IN /\ run.pc = "contextClose"
       /\ Batch(IF ~ok THEN Finally(run, "HostError")
                ELSE IF run.inFlow
                THEN NextFlow([r EXCEPT
                       !.manifest.flows =
                          Append(@, flowEntry(run.config.flows[run.fi])),
                       !.fi = @ + 1])
                ELSE IF run.si < Len(run.config.states)
                THEN [r EXCEPT !.si = @ + 1, !.vi = 1, !.ki = 1,
                               !.pc = "newContext"]
                ELSE NextFlow([r EXCEPT !.fi = 1]))

\* runCapture, runFlow: `await context.close()` settles.
BatchContextClose ==
  \E ok \in BOOLEAN :
    LET r == [run EXCEPT !.open = @ - 1]
    IN /\ run.pc = "contextClose"
       /\ Batch(IF ~ok THEN Finally(run, "HostError")
                ELSE IF run.inFlow
                THEN NextFlow([r EXCEPT
                       !.manifest.flows =
                          Append(@, flowEntry(run.config.flows[run.fi])),
                       !.fi = @ + 1])
                ELSE IF run.si < Len(run.config.states)
                THEN [r EXCEPT !.si = @ + 1, !.vi = 1, !.ki = 1,
                               !.pc = "newContext"]
                ELSE NextFlow([r EXCEPT !.fi = 1]))

\* finally: `await browser.close()` settles.
BatchBrowserClose ==
  \E ok \in BOOLEAN :
    /\ run.pc = "browserClose"
    /\ Batch(IF ok THEN Finish([run EXCEPT !.browser = "closed", !.open = 0])
             ELSE [run EXCEPT !.error = "HostError", !.pc = "thrown"])

\* cli index.ts, the build command: runCapture has returned and
\* `await writeManifest(outDir, manifest)` settles.
BuildWriteManifest ==
  \E ok \in BOOLEAN :
    /\ run.pc = "returned"
    /\ Batch(IF ok THEN [run EXCEPT !.written = TRUE, !.pc = "built"]
             ELSE [run EXCEPT !.pc = "buildFailed"])

NextBatch ==
  \/ BuildWriteManifest
  \/ BatchEnsureDir
  \/ BatchWaitForUrl
  \/ BatchLaunch
  \/ BatchNewContext
  \/ BatchNewPage
  \/ BatchSetup
  \/ BatchResize
  \/ BatchGoto
  \/ BatchReady
  \/ BatchSettle
  \/ BatchShot
  \/ BatchFlowStep
  \/ BatchContextClose
  \/ BatchBrowserClose

InitBatch ==
  /\ InitController(0)
  /\ scope = SessionScope
  /\ run \in {NewRun(cfg) : cfg \in BatchConfigs}

\* One batch run, of any of the configurations.
SpecBatch == InitBatch /\ [][NextBatch]_vars

\* A batch run or an interactive session, the urls the frames navigate to
\* being looked at.
DiscoveryConfigs ==
  { [command |-> TRUE, baseUrl |-> AppUrl, states |-> <<DEFAULT_STATE, Auth>>,
     viewports |-> <<DEFAULT_VIEWPORT, Mobile>>,
     screens |-> <<HomeScreen, AccountScreen>>, flows |-> fl] :
      fl \in {<<>>, <<TourFlow>>} }

InitDiscovery ==
  /\ InitOf({PlainConfig}, 0)
  /\ \/ /\ run = NoRun
        /\ scope = [SessionScope EXCEPT !.page = TRUE, !.steps = MaxSteps + 2]
     \/ /\ run \in {NewRun(cfg) : cfg \in DiscoveryConfigs}
        /\ scope = [SessionScope EXCEPT !.page = TRUE]

NextDiscovery ==
  \/ run = NoRun /\ NextRecorder
  \/ NextBatch

SpecDiscovery == InitDiscovery /\ [][NextDiscovery]_vars

\* C7: when a batch run has returned or thrown, the browser it launched is
\* closed and the process it spawned has been sent SIGTERM.
BatchReleasesAll ==
  run.pc \in {"returned", "thrown"} =>
    run.browser # "open" /\ run.proc # "running"

\* C9: when every poll of baseUrl within the window failed, the run has thrown
\* the startup timeout with no browser launched, no context opened, no page
\* navigated, no screenshot written and no manifest entry made.
StartupTimeoutFirst ==
  (run.answers # <<>> /\ \A i \in 1..Len(run.answers) : ~run.answers[i]) =>
    /\ run.pc = "thrown" /\ run.error = "StartupTimeout"
    /\ run.browser = None /\ run.open = 0
    /\ run.navs = 0 /\ run.shots = 0
    /\ run.manifest = [screens |-> <<>>, flows |-> <<>>]

\* A run with screens to capture has polled baseUrl in vain and has thrown.
StartupTimedOut ==
  /\ run.answers # <<>> /\ \A i \in 1..Len(run.answers) : ~run.answers[i]
  /\ run.pc = "thrown"
  /\ run.config.screens # <<>>

\* The number of url variants of a screen: one, unless it has no url and its
\* template has params with more than one combination of values.
RECURSIVE Combinations(_)
Combinations(params) ==
  IF params = <<>> THEN 1
  ELSE Len(Head(params).values) * Combinations(Tail(params))

\* The entry ids a screen is planned to yield for a state and a viewport, in
\* the order of its url variants; none when a filter of the screen leaves the
\* state or the viewport out.
PlannedOfScreen(screen, state, viewport) ==
  LET admitted ==
        /\ screen.states = <<>>
             \/ \E i \in 1..Len(screen.states) : screen.states[i] = state.id
        /\ screen.viewports = <<>>
             \/ \E i \in 1..Len(screen.viewports) :
                  screen.viewports[i] = viewport.id
      suffix == "-" \o state.id \o "-" \o viewport.id
      n == IF screen.url # None \/ screen.template = <<>> THEN 1
           ELSE Combinations(screen.params)
  IN IF ~admitted THEN <<>>
     ELSE IF n <= 1 THEN <<screen.id \o suffix>>
     ELSE [i \in 1..n |-> screen.id \o "-variant-" \o ToString(i) \o suffix]

\* The entry ids a flow is planned to yield: one for each of its capture
\* steps, under the state and the viewport the flow names, or the first ones.
PlannedOfFlow(cfg, flow) ==
  LET named(list, id) ==
        IF \E i \in 1..Len(list) : list[i].id = id
        THEN list[Min({i \in 1..Len(list) : list[i].id = id})]
        ELSE list[1]
      suffix == "-" \o named(cfg.states, flow.state).id
                \o "-" \o named(cfg.viewports, flow.viewport).id
      captures == Cardinality({i \in 1..Len(flow.steps) :
                                 flow.steps[i].type = "capture"})
  IN [j \in 1..captures |-> flow.id \o "-step-" \o ToString(j) \o suffix]

\* The plan of a run: states outermost, then viewports, then screens as
\* declared, then url variants; after them the flows as declared.
PlannedIds(cfg) ==
  Concat([s \in 1..Len(cfg.states) |->
    Concat([v \in 1..Len(cfg.viewports) |->
      Concat([k \in 1..Len(cfg.screens) |->
        PlannedOfScreen(cfg.screens[k], cfg.states[s], cfg.viewports[v])])])])
  \o Concat([f \in 1..Len(cfg.flows) |-> PlannedOfFlow(cfg, cfg.flows[f])])

\* C19: at every moment of a batch run the ids of the manifest's screen
\* entries are the beginning of the plan of the run - states outermost, then
\* viewports, then screens as declared, then url variants, then the capture
\* steps of each flow as declared - and they are the whole plan when the run
\* has returned; with one state, one viewport and the two plain-url screens
\* home and pricing, the run returns the two entries home-default-desktop and
\* pricing-default-desktop.
ManifestInExecutionOrder ==
  LET ids == [i \in 1..Len(run.manifest.screens) |->
                run.manifest.screens[i].id]
      plan == PlannedIds(run.config)
  IN /\ Len(ids) <= Len(plan)
     /\ ids = SubSeq(plan, 1, Len(ids))
     /\ run.pc = "returned" => ids = plan
     /\ ( /\ run.pc = "returned"
          /\ Len(run.config.states) = 1 /\ Len(run.config.viewports) = 1
          /\ run.config.screens = <<HomeScreen, PricingScreen>>
          /\ run.config.flows = <<>> )
        => ids = <<"home-default-desktop", "pricing-default-desktop">>

\* A run over two states, two viewports, a screen with two url variants, a
\* plain screen and a flow has returned with its seven entries.
FullMatrixReturned ==
  /\ run.pc = "returned"
  /\ Len(run.config.states) = 2 /\ Len(run.config.viewports) = 2
  /\ run.config.screens = <<DocsScreen, HomeScreen>>
  /\ run.config.flows = <<TourFlow>>
  /\ Len(run.manifest.screens) = 7
  /\ run.manifest.screens[2].id = "docs-variant-2-prod-desktop"
  /\ run.manifest.screens[7].flowId = "tour"

\* C20: a batch run holds an entry of a screen for a state and a viewport only
\* if the screen's states filter is empty or contains the state's id and its
\* viewports filter is empty or contains the viewport's id, and a run that
\* has returned holds one for every such state and viewport; so a screen with
\* states = <<"prod">> has no entry under another state and has one under
\* prod for each viewport its viewports filter lets through.
CapturedIffFiltersAdmit ==
  \A s \in 1..Len(run.config.states), v \in 1..Len(run.config.viewports),
     k \in 1..Len(run.config.screens) :
    LET state == run.config.states[s]
        viewport == run.config.viewports[v]
        screen == run.config.screens[k]
        admitted ==
          /\ screen.states = <<>>
               \/ \E i \in 1..Len(screen.states) : screen.states[i] = state.id
          /\ screen.viewports = <<>>
               \/ \E i \in 1..Len(screen.viewports) :
                    screen.viewports[i] = viewport.id
        suffix == "-" \o state.id \o "-" \o viewport.id
        captured ==
          \E i \in 1..Len(run.manifest.screens) :
            LET entry == run.manifest.screens[i]
            IN /\ entry.flowId = None
               /\ entry.stateId = state.id /\ entry.viewportId = viewport.id
               /\ entry.id \in {screen.id \o suffix,
                                 screen.id \o "-variant-1" \o suffix}
    IN /\ captured => admitted
       /\ run.pc = "returned" /\ admitted => captured

\* A run over the states prod and default and two viewports has returned: the
\* screen filtered to prod and desktop was captured there, and home under
\* default and mobile.
FilteredScreenCaptured ==
  /\ run.pc = "returned"
  /\ run.config.states = <<Prod, DEFAULT_STATE>>
  /\ Len(run.config.viewports) = 2
  /\ run.config.screens = <<DocsScreen, HomeScreen>>
  /\ run.config.flows = <<>>
  /\ \E i \in 1..Len(run.manifest.screens) :
       run.manifest.screens[i].id = "docs-variant-1-prod-desktop"
  /\ \E i \in 1..Len(run.manifest.screens) :
       run.manifest.screens[i].id = "home-default-mobile"

\* C21: two screen entries of one run that differ in their state id or in
\* their viewport id (so that their triples of base id, state id and viewport
\* id are distinct) have different ids.
EntryIdsUnique ==
  \A i, j \in 1..Len(run.manifest.screens) :
    LET a == run.manifest.screens[i]
        b == run.manifest.screens[j]
    IN <<a.stateId, a.viewportId>> # <<b.stateId, b.viewportId>> => a.id # b.id

\* The ids of the entries a returned run holds of each template screen, under
\* each state and viewport its filters admit, are those expected(screen,
\* suffix) gives, in their order.
TemplateEntriesAre(expected(_, _)) ==
  run.pc = "returned" =>
    \A s \in 1..Len(run.config.states), v \in 1..Len(run.config.viewports),
       k \in 1..Len(run.config.screens) :
      LET state == run.config.states[s]
          viewport == run.config.viewports[v]
          screen == run.config.screens[k]
          admitted ==
            /\ screen.states = <<>>
                 \/ \E i \in 1..Len(screen.states) :
                      screen.states[i] = state.id
            /\ screen.viewports = <<>>
                 \/ \E i \in 1..Len(screen.viewports) :
                      screen.viewports[i] = viewport.id
          OfScreen(entry) ==
            /\ entry.flowId = None /\ entry.name = screen.name
            /\ entry.stateId = state.id /\ entry.viewportId = viewport.id
          entries == SelectSeq(run.manifest.screens, OfScreen)
      IN (screen.url = None /\ screen.template # <<>> /\ admitted) =>
           [i \in 1..Len(entries) |-> entries[i].id]
             = expected(screen, "-" \o state.id \o "-" \o viewport.id)

\* One id for each of the k combinations of the params: the screen's id
\* alone when k is 1, the id with -variant-i for the i-th otherwise.
PerCombination(screen, suffix) ==
  LET k == Stride(screen.params, 1)
  IN IF k = 1 THEN <<screen.id \o suffix>>
     ELSE [i \in 1..k |-> screen.id \o "-variant-" \o ToString(i) \o suffix]

\* The same, and the screen's id alone when there is no combination.
PerCombinationOrTemplate(screen, suffix) ==
  IF Stride(screen.params, 1) = 0 THEN <<screen.id \o suffix>>
  ELSE PerCombination(screen, suffix)

\* C23 as stated: a template screen with k combinations of its params has k
\* entries under each state and viewport that match it, the one of a single
\* combination without a variant suffix, the i-th of several with the base
\* id <screenId>-variant-i.
OneEntryPerCombination == TemplateEntriesAre(PerCombination)

\* C23, amended: a template screen with k >= 1 combinations has k entries
\* under each state and viewport that match it, without a variant suffix
\* when k = 1 and with the base <screenId>-variant-i for the i-th otherwise;
\* with no combination at all (a parameter without values) it has one entry,
\* for the template as it is, without a variant suffix.
EntryPerCombinationOrTemplate == TemplateEntriesAre(PerCombinationOrTemplate)

\* A run has returned with the entry of the screen whose parameter has one
\* value and the entry of the screen whose parameter has none.
SingleAndEmptyCaptured ==
  /\ run.pc = "returned"
  /\ run.config.screens = <<BlogScreen, TeamScreen>>
  /\ Len(run.config.states) = 1
  /\ run.config.flows = <<>>
  /\ [i \in 1..Len(run.manifest.screens) |-> run.manifest.screens[i].id]
       = <<"blog-default-desktop", "team-default-desktop">>

\* C24: the screen entries of a flow are those of its capture steps, in step
\* order: the k-th has the base id <flow.id>-step-k, the name of the k-th
\* capture step or "<flow.name> Step k", the flow's id as flowId and k - 1 as
\* stepIndex; while the flow runs there are as many as capture steps were
\* executed, and as many as the flow has capture steps once it is done, so
\* that the other steps add no entry and do not advance the counter.
FlowEntryPerCapture ==
  \A f \in 1..Len(run.config.flows) :
    LET flow == run.config.flows[f]
        OfFlow(entry) == entry.flowId = flow.id
        IsCapture(step) == step.type = "capture"
        entries == SelectSeq(run.manifest.screens, OfFlow)
        captures == SelectSeq(flow.steps, IsCapture)
        done == \E i \in 1..Len(run.manifest.flows) :
                  run.manifest.flows[i].id = flow.id
    IN /\ Len(entries) <= Len(captures)
       /\ done => Len(entries) = Len(captures)
       /\ (run.inFlow /\ run.fi = f /\ run.pc = "flowStep") =>
            Len(entries) = Cardinality({i \in 1..(run.ti - 1) :
                                          flow.steps[i].type = "capture"})
       /\ \A k \in 1..Len(entries) :
            /\ entries[k].id = flow.id \o "-step-" \o ToString(k) \o "-"
                                 \o entries[k].stateId \o "-"
                                 \o entries[k].viewportId
            /\ entries[k].name = IF captures[k].name # None
                                  THEN captures[k].name
                                  ELSE flow.name \o " Step " \o ToString(k)
            /\ entries[k].stepIndex = k - 1

\* The flow with two capture steps among five has been run: its entries are
\* "Checkout Step 1" and "Paid".
TwoCapturesOfFive ==
  /\ run.pc = "returned"
  /\ run.config.flows = <<CheckoutFlow, TourFlow>>
  /\ \E i \in 1..Len(run.manifest.screens) :
       /\ i < Len(run.manifest.screens)
       /\ run.manifest.screens[i].name = "Checkout Step 1"
       /\ run.manifest.screens[i].stepIndex = 0
       /\ run.manifest.screens[i + 1].name = "Paid"
       /\ run.manifest.screens[i + 1].stepIndex = 1
       /\ run.manifest.screens[i + 1].flowId = "checkout"

\* The stepIndex of the k-th screen entry of every flow that is done is
\* index(flow, k); the flow of the steps goto, click, capture, run alone, has
\* given a flow entry of 3 steps and one screen entry, tagged with the flow's
\* id.
StepIndexIs(index(_, _)) ==
  /\ \A f \in 1..Len(run.manifest.flows) :
       LET flow == run.config.flows[f]
           OfFlow(entry) == entry.flowId = flow.id
           entries == SelectSeq(run.manifest.screens, OfFlow)
       IN \A k \in 1..Len(entries) : entries[k].stepIndex = index(flow, k)
  /\ (run.pc = "returned" /\ run.config.flows = <<SettingsFlow>>) =>
       LET OfSettings(entry) == entry.flowId # None
           entries == SelectSeq(run.manifest.screens, OfSettings)
       IN /\ Len(run.manifest.flows) = 1
          /\ Len(run.manifest.flows[1].steps) = 3
          /\ Len(entries) = 1
          /\ entries[1].flowId = "settings"

\* The zero-based position, in the step list of the flow, of its k-th capture
\* step.
PositionInSteps(flow, k) ==
  (CHOOSE p \in 1..Len(flow.steps) :
     /\ flow.steps[p].type = "capture"
     /\ Cardinality({i \in 1..p : flow.steps[i].type = "capture"}) = k) - 1

\* The zero-based position of the k-th capture step among the capture steps.
PositionInCaptures(flow, k) == k - 1

\* C25 as stated: the stepIndex of a flow capture's entry is the zero-based
\* position of the capture step in the flow's step list; the flow goto,
\* click, capture yields a flow entry with 3 steps and one screen entry with
\* the flow's id and stepIndex 2.
StepIndexIsListPosition == StepIndexIs(PositionInSteps)

\* C25, amended: the stepIndex of a flow capture's entry is the zero-based
\* position of the capture step among the capture steps of the flow; the
\* flow goto, click, capture yields a flow entry with 3 steps and one screen
\* entry with the flow's id and stepIndex 0.
StepIndexIsCapturePosition == StepIndexIs(PositionInCaptures)

\* The flow goto, click, capture has been run alone; its screen entry is
\* tagged 0.
SettingsFlowReturned ==
  /\ run.pc = "returned"
  /\ run.config.flows = <<SettingsFlow>>
  /\ \E i \in 1..Len(run.manifest.screens) :
       /\ run.manifest.screens[i].flowId = "settings"
       /\ run.manifest.screens[i].name = "Saved"
       /\ run.manifest.screens[i].stepIndex = 0

\* C26: the steps a flow has executed are its first steps, in list order and
\* each once; a step is executed only after the one before it, and none once
\* a step has failed; a flow entry is returned only after every step was
\* executed, and it holds the id, the name and the step list of the flow as
\* they are in the configuration.
FlowStepsInOrder ==
  /\ [](/\ \A i \in 1..Len(run.ran) : run.ran[i] = i
        /\ (run.inFlow /\ run.fi <= Len(run.config.flows)) =>
             Len(run.ran) <= Len(run.config.flows[run.fi].steps)
        /\ \A f \in 1..Len(run.manifest.flows) :
             /\ run.manifest.flows[f].id = run.config.flows[f].id
             /\ run.manifest.flows[f].name = run.config.flows[f].name
             /\ run.manifest.flows[f].steps = run.config.flows[f].steps)
  /\ [][/\ run'.ran # run.ran =>
             \/ run'.ran = <<>>
             \/ run'.ran = Append(run.ran, Len(run.ran) + 1) /\ run.error = None
        /\ Len(run'.manifest.flows) > Len(run.manifest.flows) =>
             /\ Len(run'.manifest.flows) = Len(run.manifest.flows) + 1
             /\ Len(run.ran) = Len(run.config.flows[run.fi].steps)
             /\ run.error = None
        /\ run'.config = run.config]_vars

\* The first flow was run to its end and its entry returned; the second step
\* of the second flow failed, and the run has thrown.
SecondFlowFailed ==
  /\ run.pc = "thrown" /\ run.error = "StepFailure"
  /\ run.config.flows = <<CheckoutFlow, TourFlow>>
  /\ Len(run.manifest.flows) = 1
  /\ run.manifest.flows[1].id = "checkout"
  /\ Len(run.manifest.flows[1].steps) = 5
  /\ run.inFlow /\ run.fi = 2 /\ run.ran = <<1>>

\* ------------------------------------- references to states and viewports

\* The lists of a configuration and the references made to them: absent,
\* the id of an entry, or an id no entry has.
RefConfigs ==
  { normalizeConfig([command |-> FALSE, baseUrl |-> None, states |-> ss,
                     viewports |-> vs, screens |-> <<>>, flows |-> <<>>]) :
      ss \in {<<>>, <<DEFAULT_STATE, Auth>>, <<Prod, DEFAULT_STATE>>,
              <<Auth, AuthAdmin>>},
      vs \in {<<>>, <<DEFAULT_VIEWPORT, Mobile>>, <<Mobile, DEFAULT_VIEWPORT>>} }

RefStateIds == {None, "default", "auth", "prod", "ghost"}
RefViewportIds == {None, "desktop", "mobile", "ghost"}

\* ensureContext with a context held resolves stateId and viewportId and
\* decides whether a new context is needed.
ResolveForContext ==
  \E cfg \in RefConfigs, s \in RefStateIds, v \in RefViewportIds :
    \E cs \in 1..Len(cfg.states), cv \in 1..Len(cfg.viewports) :
      LET c == [context |-> 1, currentStateId |-> cfg.states[cs].id,
                currentViewportId |-> cfg.viewports[cv].id]
          st == getState(cfg, s)
          vp == getViewport(cfg, v)
      IN /\ calc = NoCalc
         /\ calc' = [fn |-> "ensureContext",
                     arg |-> [states |-> cfg.states,
                              viewports |-> cfg.viewports,
                              stateId |-> s, viewportId |-> v,
                              currentStateId |-> c.currentStateId,
                              currentViewportId |-> c.currentViewportId],
                     out |-> [state |-> st, viewport |-> vp,
                              needsNewContext |-> needsNewContext(c, st, vp)]]
         /\ UNCHANGED <<hostVars, serverVars, ctlVars, run, scope>>

\* runFlow resolves the state and the viewport of a flow.
ResolveForFlow ==
  \E cfg \in RefConfigs, s \in RefStateIds, v \in RefViewportIds :
    LET flow == [id |-> "flow", name |-> "Flow", state |-> s, viewport |-> v,
                 steps |-> <<>>]
        r == [NewRun([cfg EXCEPT !.flows = <<flow>>])
                EXCEPT !.inFlow = TRUE, !.fi = 1]
    IN /\ calc = NoCalc
       /\ calc' = [fn |-> "runFlow",
                   arg |-> [states |-> cfg.states, viewports |-> cfg.viewports,
                            stateId |-> s, viewportId |-> v,
                            currentStateId |-> None,
                            currentViewportId |-> None],
                   out |-> [state |-> RunState(r), viewport |-> RunViewport(r),
                            needsNewContext |-> TRUE]]
       /\ UNCHANGED <<hostVars, serverVars, ctlVars, run, scope>>

NextResolve ==
  \/ ResolveForContext
  \/ ResolveForFlow

SpecResolve ==
  /\ InitOf({PlainConfig}, 0) /\ run = NoRun /\ scope = SessionScope
  /\ [][NextResolve]_vars

\* C27: the state and the viewport a flow, a launch or a capture refers to
\* are entries of the configuration: the entry with the id referred to when
\* there is one, the first entry when the reference is absent or no entry
\* has the id.  So ensureContext called without stateId and viewportId keeps
\* the context exactly when the active ids are those of the first state and
\* the first viewport.
ReferenceResolvesOrFirst ==
  calc.fn \in {"ensureContext", "runFlow"} =>
    LET a == calc.arg
        Resolved(list, id, entry) ==
          /\ \E i \in 1..Len(list) : list[i] = entry
          /\ IF \E i \in 1..Len(list) : list[i].id = id
             THEN entry.id = id
             ELSE entry = list[1]
    IN /\ Resolved(a.states, a.stateId, calc.out.state)
       /\ Resolved(a.viewports, a.viewportId, calc.out.viewport)
       /\ (/\ calc.fn = "ensureContext"
           /\ a.stateId = None /\ a.viewportId = None) =>
            (calc.out.needsNewContext
               <=> ~(/\ a.currentStateId = a.states[1].id
                     /\ a.currentViewportId = a.viewports[1].id))

\* A flow refers to a state no entry has and to no viewport, where the lists
\* have two entries: it runs under the first of each.
UnknownReferenceResolved ==
  /\ calc.fn = "runFlow"
  /\ calc.arg.stateId = "ghost" /\ calc.arg.viewportId = None
  /\ calc.arg.states = <<Prod, DEFAULT_STATE>>
  /\ calc.arg.viewports = <<Mobile, DEFAULT_VIEWPORT>>
  /\ calc.out.state = Prod /\ calc.out.viewport = Mobile

\* The screens of the run whose states filter is not empty and names no state
\* of the configuration, or whose viewports filter is not empty and names no
\* viewport of it.
StaleScreens ==
  {k \in 1..Len(run.config.screens) :
     LET screen == run.config.screens[k]
     IN \/ /\ screen.states # <<>>
           /\ \A i \in 1..Len(screen.states), j \in 1..Len(run.config.states) :
                screen.states[i] # run.config.states[j].id
        \/ /\ screen.viewports # <<>>
           /\ \A i \in 1..Len(screen.viewports),
                 j \in 1..Len(run.config.viewports) :
                screen.viewports[i] # run.config.viewports[j].id}

\* The screen entries of the run that are those of screen k.
EntriesOfScreen(k) ==
  {i \in 1..Len(run.manifest.screens) :
     /\ run.manifest.screens[i].flowId = None
     /\ run.manifest.screens[i].name = run.config.screens[k].name}

\* C28 as stated: a run that has returned holds, for every screen whose
\* filter names no entry of the configuration, an entry under the first
\* state (the first viewport).
StaleFilterFallsBack ==
  run.pc = "returned" =>
    \A k \in StaleScreens :
      \E i \in EntriesOfScreen(k) :
        \/ run.manifest.screens[i].stateId = run.config.states[1].id
        \/ run.manifest.screens[i].viewportId = run.config.viewports[1].id

\* C28, amended: a screen whose filter names no entry of the configuration
\* has no entry at any moment of the run, under no state and no viewport;
\* the run goes on with the other screens.
StaleFilterSkips ==
  \A k \in StaleScreens : EntriesOfScreen(k) = {}

\* A run whose first screen is filtered to a state that is not configured has
\* returned, with the entries of the other screen alone.
StaleScreenSkipped ==
  /\ run.pc = "returned"
  /\ run.config.screens = <<LegacyScreen, HomeScreen>>
  /\ StaleScreens = {1}
  /\ [i \in 1..Len(run.manifest.screens) |-> run.manifest.screens[i].id]
       = <<"home-default-desktop", "home-auth-desktop">>

\* ------------------------------------------- config.ts: schema and merge

\* The objects given as a selector (a key it has not is None), and where in
\* an overlay a selector stands.
SelectorObjects ==
  [testId : {None, "a"}, role : {None, "a"}, name : {None, "a"},
   text : {None, "a"}, css : {None, "a"}]

SelectorPlaces == {"ready", "click", "fill", "press", "waitFor"}

\* selectorSchema: the first object of the union whose required key the
\* input has; an object schema drops the keys it does not declare.
selectorSchema(input) ==
  IF input.testId # None
  THEN [ok |-> TRUE, value |-> [NoSelector EXCEPT !.testId = input.testId]]
  ELSE IF input.role # None
  THEN [ok |-> TRUE, value |-> [NoSelector EXCEPT !.role = input.role,
                                                  !.name = input.name]]
  ELSE IF input.text # None
  THEN [ok |-> TRUE, value |-> [NoSelector EXCEPT !.text = input.text]]
  ELSE IF input.css # None
  THEN [ok |-> TRUE, value |-> [NoSelector EXCEPT !.css = input.css]]
  ELSE [ok |-> FALSE, value |-> NoSelector]

\* runner.ts locatorFor: the call made on the page.
locatorFor(selector) ==
  IF selector.testId # None THEN "getByTestId"
  ELSE IF selector.role # None THEN "getByRole"
  ELSE IF selector.text # None THEN "getByText"
  ELSE "locator"

\* parseScreenboardJson meets a selector; what it returns goes to locatorFor.
ParseSelector ==
  \E input \in SelectorObjects, place \in SelectorPlaces :
    LET parsed == selectorSchema(input)
    IN /\ calc = NoCalc
       /\ calc' = [fn |-> "selectorSchema",
                   arg |-> [place |-> place, selector |-> input],
                   out |-> [ok |-> parsed.ok, value |-> parsed.value,
                            locator |-> IF parsed.ok
                                        THEN locatorFor(parsed.value)
                                        ELSE None]]
       /\ UNCHANGED <<hostVars, serverVars, ctlVars, run, scope>>

\* A field of a configuration object that may be absent.
Absent == [has |-> FALSE, val |-> <<>>]
Given(val) == [has |-> TRUE, val |-> val]

\* The keys of an app and of an output object; an object is the value of
\* each key, None for a key it has not.
AppKeys == {"baseUrl", "command", "cwd"}
OutputKeys == {"dir", "title"}

\* The base configurations (of the config file) and the overlays (of
\* screenboard.json); an overlay may be undefined.
MergeBases ==
  { [app |-> a, output |-> o, viewports |-> vs, states |-> Absent,
     screens |-> sc, flows |-> Absent] :
      a \in {Absent, Given([k \in AppKeys |-> IF k = "cwd" THEN None
                                              ELSE "base"])},
      o \in {Absent, Given([k \in OutputKeys |-> "base"])},
      vs \in {Absent, Given(<<DEFAULT_VIEWPORT, Mobile>>)},
      sc \in {Absent, Given(<<HomeScreen>>)} }

MergeOverlays ==
  { [defined |-> TRUE, app |-> a, output |-> o, viewports |-> vs,
     states |-> ss, screens |-> sc, flows |-> fl] :
      a \in {Absent} \cup {Given(f) : f \in [AppKeys -> {None, "overlay"}]},
      o \in {Absent, Given([k \in OutputKeys |-> IF k = "dir" THEN "overlay"
                                                 ELSE None])},
      vs \in {Absent, Given(<<>>), Given(<<Mobile>>)},
      ss \in {Absent, Given(<<Auth>>)},
      sc \in {Absent, Given(<<PricingScreen>>)},
      fl \in {Absent, Given(<<TourFlow>>)} }
  \cup {[defined |-> FALSE, app |-> Absent, output |-> Absent,
          viewports |-> Absent, states |-> Absent, screens |-> Absent,
          flows |-> Absent]}

\* { ...base, ...overlay } of two objects that may be undefined.
Spread(K, base, overlay) ==
  Given([k \in K |->
    IF overlay.has /\ overlay.val[k] # None THEN overlay.val[k]
    ELSE IF base.has THEN base.val[k] ELSE None])

\* { ...base, ...overlay }, the keys of the base winning.
SpreadBaseFirst(K, base, overlay) ==
  Given([k \in K |->
    IF base.has /\ base.val[k] # None THEN base.val[k]
    ELSE IF overlay.has THEN overlay.val[k] ELSE None])

\* config.ts mergeConfig, with the spreads in the other order.
mergeConfigBaseFirst(base, overlay) ==
  IF ~overlay.defined THEN base
  ELSE [app |-> SpreadBaseFirst(AppKeys, base.app, overlay.app),
        output |-> SpreadBaseFirst(OutputKeys, base.output, overlay.output),
        viewports |-> IF overlay.viewports.has THEN overlay.viewports
                      ELSE base.viewports,
        states |-> IF overlay.states.has THEN overlay.states ELSE base.states,
        screens |-> IF overlay.screens.has THEN overlay.screens
                    ELSE base.screens,
        flows |-> IF overlay.flows.has THEN overlay.flows ELSE base.flows]

\* config.ts mergeConfig
mergeConfig(base, overlay) ==
  IF ~overlay.defined THEN base
  ELSE [app |-> Spread(AppKeys, base.app, overlay.app),
        output |-> Spread(OutputKeys, base.output, overlay.output),
        viewports |-> IF overlay.viewports.has THEN overlay.viewports
                      ELSE base.viewports,
        states |-> IF overlay.states.has THEN overlay.states ELSE base.states,
        screens |-> IF overlay.screens.has THEN overlay.screens
                    ELSE base.screens,
        flows |-> IF overlay.flows.has THEN overlay.flows ELSE base.flows]

\* loadConfig merges screenboard.json into the configuration; base is the
\* object given, as the call leaves it.
MergeConfig ==
  \E base \in MergeBases, overlay \in MergeOverlays :
    /\ calc = NoCalc
    /\ calc' = [fn |-> "mergeConfig",
                arg |-> [base |-> base, overlay |-> overlay],
                out |-> [merged |-> mergeConfig(base, overlay), base |-> base]]
    /\ UNCHANGED <<hostVars, serverVars, ctlVars, run, scope>>

\* utils.ts DEFAULT_OUTPUT_DIR
DEFAULT_OUTPUT_DIR == "screenboard"

\* The configurations given to the constructor and to updateConfig: each
\* field absent or given, a list given empty or with one entry.
NormalizeInputs ==
  { [app |-> a, output |-> o, viewports |-> vs, states |-> ss,
     screens |-> sc, flows |-> fl] :
      a \in {Absent, Given([k \in AppKeys |-> IF k = "baseUrl" THEN "base"
                                               ELSE None])},
      o \in {Absent,
             Given([k \in OutputKeys |-> IF k = "dir" THEN None ELSE "t"]),
             Given([k \in OutputKeys |-> IF k = "dir" THEN "out" ELSE None])},
      vs \in {Absent, Given(<<>>), Given(<<Mobile>>)},
      ss \in {Absent, Given(<<>>), Given(<<Auth>>)},
      sc \in {Absent, Given(<<HomeScreen>>)},
      fl \in {Absent, Given(<<>>)} }

\* config.output?.dir and config.output?.title
OutputKey(cfg, k) == IF cfg.output.has THEN cfg.output.val[k] ELSE None

\* normalizeConfig, an empty list of viewports or of states kept as it is.
normalizeConfigKeepEmpty(cfg) ==
  [app |-> IF cfg.app.has THEN cfg.app
           ELSE Given([k \in AppKeys |-> None]),
   output |-> Given([k \in OutputKeys |->
                IF k = "dir"
                THEN IF OutputKey(cfg, "dir") # None
                     THEN OutputKey(cfg, "dir")
                     ELSE DEFAULT_OUTPUT_DIR
                ELSE OutputKey(cfg, "title")]),
   viewports |-> IF cfg.viewports.has THEN cfg.viewports
                 ELSE Given(<<DEFAULT_VIEWPORT>>),
   states |-> IF cfg.states.has THEN cfg.states
              ELSE Given(<<DEFAULT_STATE>>),
   screens |-> IF cfg.screens.has THEN cfg.screens ELSE Given(<<>>),
   flows |-> IF cfg.flows.has THEN cfg.flows ELSE Given(<<>>)]

\* config.ts normalizeConfig, on the whole configuration object.
normalizeConfigObject(cfg) ==
  [app |-> IF cfg.app.has THEN cfg.app
           ELSE Given([k \in AppKeys |-> None]),
   output |-> Given([k \in OutputKeys |->
                IF k = "dir"
                THEN IF OutputKey(cfg, "dir") # None
                     THEN OutputKey(cfg, "dir")
                     ELSE DEFAULT_OUTPUT_DIR
                ELSE OutputKey(cfg, "title")]),
   viewports |-> IF cfg.viewports.has /\ Len(cfg.viewports.val) > 0
                 THEN cfg.viewports
                 ELSE Given(<<DEFAULT_VIEWPORT>>),
   states |-> IF cfg.states.has /\ Len(cfg.states.val) > 0
              THEN cfg.states
              ELSE Given(<<DEFAULT_STATE>>),
   screens |-> IF cfg.screens.has THEN cfg.screens ELSE Given(<<>>),
   flows |-> IF cfg.flows.has THEN cfg.flows ELSE Given(<<>>)]

\* The constructor and updateConfig: this.config = normalizeConfig(cfg).
\* The configuration given is a new one or the working configuration of
\* the controller (the result of the call before).
NormalizeConfig ==
  /\ calc = NoCalc \/ calc.fn = "normalizeConfig"
  /\ \E cfg \in NormalizeInputs \cup
                    (IF calc.fn = "normalizeConfig" THEN {calc.out} ELSE {}) :
       calc' = [fn |-> "normalizeConfig", arg |-> cfg,
                out |-> normalizeConfigObject(cfg)]
  /\ UNCHANGED <<hostVars, serverVars, ctlVars, run, scope>>

NextJson ==
  \/ ParseSelector
  \/ MergeConfig
  \/ NormalizeConfig

SpecJson ==
  /\ InitOf({PlainConfig}, 0) /\ run = NoRun /\ scope = SessionScope
  /\ [][NextJson]_vars

\* C29: a selector that passes the validation has the key of exactly one of
\* the four variants testId, role, text, css.
SelectorOfOneVariant ==
  calc.fn = "selectorSchema" =>
    (calc.out.ok =>
       Cardinality({v \in {"testId", "role", "text", "css"} :
                      calc.arg.selector[v] # None}) = 1)

\* C30: mergeConfig with an overlay gives, for app and for output, each key
\* with the overlay's value when the overlay has the key and with the base's
\* value otherwise, and for each of viewports, states, screens and flows the
\* overlay's list as it is when the overlay defines the field and the base's
\* list as it is otherwise; without an overlay it gives the base; the base is
\* left as it was.
MergeIsFieldwise ==
  calc.fn = "mergeConfig" =>
    LET base == calc.arg.base
        overlay == calc.arg.overlay
        merged == calc.out.merged
        KeyOf(obj, k) == IF obj.has THEN obj.val[k] ELSE None
        Keywise(K, field) ==
          \A k \in K :
            KeyOf(merged[field], k) =
              IF KeyOf(overlay[field], k) # None THEN KeyOf(overlay[field], k)
              ELSE KeyOf(base[field], k)
        Whole(field) ==
          merged[field] = IF overlay[field].has THEN overlay[field]
                          ELSE base[field]
    IN /\ calc.out.base = base
       /\ IF ~overlay.defined THEN merged = base
          ELSE /\ Keywise(AppKeys, "app") /\ Keywise(OutputKeys, "output")
               /\ Whole("viewports") /\ Whole("states")
               /\ Whole("screens") /\ Whole("flows")

\* The overlay sets app.baseUrl alone and an empty list of viewports, over a
\* base that has app.command and two viewports: the merged configuration has
\* the overlay's baseUrl, the base's command and no viewport.
OverlayKeyAndEmptyList ==
  /\ calc.fn = "mergeConfig"
  /\ calc.arg.overlay.defined
  /\ calc.arg.overlay.app.has
  /\ calc.arg.overlay.app.val["baseUrl"] = "overlay"
  /\ calc.arg.overlay.app.val["command"] = None
  /\ calc.arg.base.app.has
  /\ calc.arg.base.viewports = Given(<<DEFAULT_VIEWPORT, Mobile>>)
  /\ calc.arg.overlay.viewports = Given(<<>>)
  /\ calc.out.merged.app.val["baseUrl"] = "overlay"
  /\ calc.out.merged.app.val["command"] = "base"
  /\ calc.out.merged.viewports = Given(<<>>)

\* A configuration as normalizeConfig leaves it: every field there, a
\* directory of output, one viewport and one state at least.
Normalized(cfg) ==
  /\ cfg.app.has /\ cfg.output.has
  /\ cfg.output.val["dir"] # None
  /\ cfg.viewports.has /\ Len(cfg.viewports.val) >= 1
  /\ cfg.states.has /\ Len(cfg.states.val) >= 1
  /\ cfg.screens.has /\ cfg.flows.has

\* C31: the working configuration that the constructor and updateConfig set
\* has the output directory given or else the default one, the lists of
\* viewports and of states given when they have an entry or else the single
\* default viewport and the single default state, the screens and flows
\* given or else empty lists; it has a viewport and a state, so the
\* resolution of any id gives one of its entries; and normalizing a
\* configuration that was normalized gives that configuration again.
NormalizeFillsDefaults ==
  calc.fn = "normalizeConfig" =>
    LET given == calc.arg
        working == calc.out
        ListOr(field, default) ==
          working[field] = IF given[field].has /\ Len(given[field].val) > 0
                           THEN given[field] ELSE Given(default)
        Resolves(list) ==
          \A id \in {None, "auth", "mobile", "missing"} :
            \E i \in 1..Len(list) : FindOrFirst(list, id) = list[i]
    IN /\ working.output.val["dir"] =
            (IF given.output.has /\ given.output.val["dir"] # None
             THEN given.output.val["dir"] ELSE "screenboard")
       /\ ListOr("viewports", <<DEFAULT_VIEWPORT>>)
       /\ ListOr("states", <<DEFAULT_STATE>>)
       /\ working.screens = (IF given.screens.has THEN given.screens
                             ELSE Given(<<>>))
       /\ working.flows = (IF given.flows.has THEN given.flows
                           ELSE Given(<<>>))
       /\ Normalized(working)
       /\ Resolves(working.viewports.val) /\ Resolves(working.states.val)
       /\ Normalized(given) => working = given

\* updateConfig is given the working configuration that an empty
\* configuration was normalized to, and leaves it as it is.
DefaultsNormalizedAgain ==
  /\ calc.fn = "normalizeConfig"
  /\ calc.arg.viewports = Given(<<DEFAULT_VIEWPORT>>)
  /\ calc.arg.states = Given(<<DEFAULT_STATE>>)
  /\ calc.arg.output.has /\ calc.arg.output.val["dir"] = DEFAULT_OUTPUT_DIR
  /\ calc.arg.screens = Given(<<>>)
  /\ calc.out = calc.arg

\* ------------------------------------------ utils.ts: slugify, fileSafeName

\* A string is the sequence of its characters.  The characters of the
\* inputs: a lower-case letter, an upper-case letter, a digit, a hyphen,
\* a space and an underscore.
SlugAlphabet == {"a", "B", "7", "-", " ", "_"}

\* slice(0, 64) of slugify and slice(0, 80) of fileSafeName
SlugLength == 64
FileNameLength == 80

\* The inputs: up to MaxPad characters short of the limit or none, and
\* then up to MaxTail characters of any kind.
MaxTail == 3
MaxPad == 2

Pad(n) == [i \in 1..n |-> "a"]

SlugInputs(limit) ==
  { Pad(n) \o tail : n \in {0} \cup ((limit - MaxPad)..limit),
                     tail \in SeqsUpTo(SlugAlphabet, MaxTail) }

\* String.prototype.toLowerCase
LowerCase(value) ==
  [i \in 1..Len(value) |-> IF value[i] = "B" THEN "b" ELSE value[i]]

\* The part of value without the characters of strip at its two ends.
Strip(value, strip) ==
  LET kept == {i \in 1..Len(value) : value[i] \notin strip}
  IN IF kept = {} THEN <<>>
     ELSE SubSeq(value, Min(kept), CHOOSE i \in kept : \A j \in kept : j <= i)

\* String.prototype.trim
Trim(value) == Strip(value, {" "})

\* [a-z0-9]
IsAlnum(ch) == ch \in {"a", "b", "7"}

\* replace(/[^a-z0-9]+/g, "-"): each run of other characters becomes one
\* hyphen.
RECURSIVE Hyphenate(_)
Hyphenate(value) ==
  IF value = <<>> THEN <<>>
  ELSE IF IsAlnum(Head(value)) THEN <<Head(value)>> \o Hyphenate(Tail(value))
  ELSE IF Len(value) > 1 /\ ~IsAlnum(value[2]) THEN Hyphenate(Tail(value))
  ELSE <<"-">> \o Hyphenate(Tail(value))

\* replace(/^-+|-+$/g, "")
TrimHyphens(value) == Strip(value, {"-"})

\* slice(0, n)
Slice(value, n) == SubSeq(value, 1, Min({n, Len(value)}))

\* utils.ts slugify
slugify(value) ==
  Slice(TrimHyphens(Hyphenate(Trim(LowerCase(value)))), SlugLength)

\* utils.ts fileSafeName
fileSafeName(value) ==
  Slice(TrimHyphens(Hyphenate(Trim(LowerCase(value)))), FileNameLength)

\* slugify(value), and slugify of what it gave
Slugify ==
  \E value \in SlugInputs(SlugLength) :
    /\ calc = NoCalc
    /\ calc' = [fn |-> "slugify", arg |-> value,
                out |-> [once |-> slugify(value),
                         twice |-> slugify(slugify(value)),
                         limit |-> SlugLength]]
    /\ UNCHANGED <<hostVars, serverVars, ctlVars, run, scope>>

\* fileSafeName(value), and fileSafeName of what it gave
FileSafeName ==
  \E value \in SlugInputs(FileNameLength) :
    /\ calc = NoCalc
    /\ calc' = [fn |-> "fileSafeName", arg |-> value,
                out |-> [once |-> fileSafeName(value),
                         twice |-> fileSafeName(fileSafeName(value)),
                         limit |-> FileNameLength]]
    /\ UNCHANGED <<hostVars, serverVars, ctlVars, run, scope>>

NextSlug ==
  \/ Slugify
  \/ FileSafeName

SpecSlug ==
  /\ InitOf({PlainConfig}, 0) /\ run = NoRun /\ scope = SessionScope
  /\ [][NextSlug]_vars

\* C32: slugify and fileSafeName give a string of the characters a-z, 0-9
\* and hyphen only, of at most 64 (slugify) or 80 (fileSafeName) characters,
\* that neither starts nor ends with a hyphen, and applying the function to
\* that string gives the string again.
SlugCleanAndIdempotent ==
  calc.fn \in {"slugify", "fileSafeName"} =>
    LET slug == calc.out.once
    IN /\ calc.out.twice = slug
       /\ \A i \in 1..Len(slug) : slug[i] \in {"a", "b", "7", "-"}
       /\ Len(slug) <= (IF calc.fn = "slugify" THEN 64 ELSE 80)
       /\ slug # <<>> => slug[1] # "-" /\ slug[Len(slug)] # "-"

\* C33: once a step of a batch run has failed, no navigation is made, no
\* screenshot is taken, no flow step is run and no entry is added any more,
\* and the run does not return a manifest; manifest.json is written only
\* when the manifest has the entries of the whole matrix and of every flow.
BatchAllOrNothing ==
  /\ [](run.error # None => run.pc \notin {"returned", "built"})
  /\ [](run.written =>
          /\ run.error = None
          /\ Len(run.manifest.screens) = Len(PlannedIds(run.config))
          /\ Len(run.manifest.flows) = Len(run.config.flows))
  /\ [][run.error # None =>
          /\ run.navs' = run.navs /\ run.shots' = run.shots
          /\ run.ran' = run.ran /\ run.manifest' = run.manifest
          /\ run.written' = run.written]_vars

\* A navigation failed after a screenshot was taken: the run has thrown and
\* nothing is written.
ThrownAfterFirstShot ==
  /\ run.pc = "thrown" /\ run.error = "NavigationFailure"
  /\ run.shots >= 1 /\ Len(run.manifest.screens) >= 1
  /\ ~run.written

\* C34: a batch run has at most one context open at any moment; when it has
\* returned it has opened one context for each state of the configuration,
\* in their order, and then one for each flow, under the state of the flow;
\* it has run the setup hook once for each of these contexts whose state
\* has one; and it has resized once for each pair of a state and a viewport,
\* states outermost, and then once for each flow.
OneContextPerStateAndFlow ==
  LET cfg == run.config
      named(list, id) ==
        IF \E i \in 1..Len(list) : list[i].id = id
        THEN list[Min({i \in 1..Len(list) : list[i].id = id})]
        ELSE list[1]
      ofStates == [i \in 1..Len(cfg.states) |-> cfg.states[i]]
      ofFlows == [f \in 1..Len(cfg.flows) |->
                    named(cfg.states, cfg.flows[f].state)]
      contextStates == ofStates \o ofFlows
      hasSetup(state) == state.setup
      pairs == Concat([i \in 1..Len(cfg.states) |->
                 [v \in 1..Len(cfg.viewports) |->
                    [state |-> cfg.states[i].id,
                     viewport |-> cfg.viewports[v].id]]])
      flowPairs == [f \in 1..Len(cfg.flows) |->
                      [state |-> ofFlows[f].id,
                       viewport |-> named(cfg.viewports,
                                          cfg.flows[f].viewport).id]]
      Ids(list) == [i \in 1..Len(list) |-> list[i].id]
  IN /\ run.open <= 1
     /\ run.pc = "returned" =>
          /\ run.opened = Ids(contextStates)
          /\ run.setups = Ids(SelectSeq(contextStates, hasSetup))
          /\ run.resizes = pairs \o flowPairs
          /\ run.open = 0

\* A run over two states, one of them with a setup hook, two viewports and
\* two flows has returned: four contexts, and six resizes.
FourContextsOpened ==
  /\ run.pc = "returned"
  /\ Len(run.config.states) = 2 /\ Len(run.config.viewports) = 2
  /\ Len(run.config.flows) = 2
  /\ Len(run.opened) = 4 /\ Len(run.resizes) = 6
  /\ Len(run.setups) >= 1

\* C35: the urls discovered, of an interactive session and of a batch run,
\* never have a url that begins with about: among them, nor a url twice;
\* the discoveredUrls of the manifest of a batch run are empty until the
\* loops over the states and over the flows are over, and when the run has
\* returned they are the urls, other than the about: ones, that the frames
\* of the run navigated to, each once.
DiscoveredUrlsClean ==
  LET NoAbout(urls) == \A i \in 1..Len(urls) : urls[i] # "about:blank"
      NoDuplicate(urls) ==
        \A i, j \in 1..Len(urls) : urls[i] = urls[j] => i = j
      Values(urls) == {urls[i] : i \in 1..Len(urls)}
  IN /\ "about:blank" \notin discovered
     /\ NoAbout(run.discovered) /\ NoDuplicate(run.discovered)
     /\ NoAbout(run.discoveredUrls) /\ NoDuplicate(run.discoveredUrls)
     /\ run.discoveredUrls # <<>> =>
          /\ Len(run.opened) = Len(run.config.states) + Len(run.config.flows)
          /\ Len(run.manifest.screens) = Len(PlannedIds(run.config))
          /\ Len(run.manifest.flows) = Len(run.config.flows)
     /\ run.pc = "returned" =>
          Values(run.discoveredUrls) = run.framed \ {"about:blank"}

\* A run has returned with two urls discovered, an iframe of it having
\* navigated to about:blank.
TwoUrlsDiscovered ==
  /\ run.pc = "returned"
  /\ Len(run.discoveredUrls) = 2
  /\ "about:blank" \in run.framed
  /\ run.navs >= 3

\* ------------------------------------------- capture requests that overlap

\* Launch and capture requests, some of which arrive while another is
\* suspended at an await; what each context was made with is kept.
SpecOverlap ==
  /\ InitController(MaxOverlaps) /\ run = NoRun
  /\ ~currentConfig.command
  /\ scope = [SessionScope EXCEPT !.made = TRUE]
  /\ [][NextScreens]_vars

\* C36: of two capture requests that overlap and whose state or viewport
\* differ, the one that is answered well took its screenshot on a page of a
\* context made with the state, and resized to the viewport, that its shot
\* records (stateId, viewportId, width, height); and neither has its
\* screenshot pending on a page that is closed.
ShotOnItsOwnContext ==
  \A tid, other \in Tasks :
    LET t == tasks[tid]
        o == tasks[other]
    IN (/\ tid # other /\ t.op = "capture" /\ o.op = "capture"
        /\ t.resolved /\ o.resolved
        /\ t.st.id # o.st.id \/ t.vp.id # o.vp.id) =>
         /\ (t.pc = "done" /\ t.resp = "200") =>
              /\ t.shot.state = t.st.id
              /\ t.shot.viewport = t.vp.id
              /\ t.shot.width = t.vp.width
              /\ t.shot.height = t.vp.height
         /\ t.pc = "capShot" => PageOpen(World, t.tp)

\* C37: when no request is under way, a controller that holds a page holds
\* a browser and a context of that browser that is open and that the page
\* belongs to; and a goto, capture, validateSelector or startRecording call
\* that found no browser held makes no call on a page: it has failed with
\* "Browser not launched" (or, before the controller was called, on the
\* overlay of the request).
HeldPageHasOpenContext ==
  /\ []((InFlight = {} /\ page # 0) =>
          /\ browser # 0 /\ BrowserOpen(World, browser)
          /\ context # 0 /\ ContextOpen(World, context)
          /\ contexts[context].browser = browser
          /\ page = context /\ PageOpen(World, page))
  /\ [][\A tid \in Tasks :
          (/\ StepOf(tid)
           /\ tasks'[tid].op \in {"goto", "capture", "validateSelector",
                                   "recordStart"}
           /\ Before(tid).browser = 0) =>
            /\ tasks'[tid].pc = "done"
            /\ tasks'[tid].err \in {"NotLaunched", "ValidationError"}]_vars

\* ------------------------------------------ what the held context was made with

\* Launch and capture requests, one at a time; what each context was made
\* with is kept.
SpecMade ==
  /\ InitController(0) /\ run = NoRun
  /\ ~currentConfig.command
  /\ scope = [SessionScope EXCEPT !.made = TRUE]
  /\ [][NextScreens]_vars

\* C38: when no request is under way, the context the controller holds is
\* open and was made with the state and the viewport of the active ids;
\* and a launch or capture call that ends well leaves the controller with
\* an open context and page made with the state and viewport it resolved.
ActiveIdsDescribeContext ==
  /\ []((InFlight = {} /\ context # 0) =>
          /\ ContextOpen(World, context)
          /\ contexts[context].made.state = currentStateId
          /\ contexts[context].made.viewport = currentViewportId)
  /\ [][\A tid \in Tasks :
          LET d == tasks'[tid]
          IN (/\ Completes(tid) /\ d.op \in {"launch", "capture"}
              /\ d.resp = "200") =>
               /\ context' # 0 /\ contexts'[context'].open
               /\ page' = context' /\ contexts'[context'].hasPage
               /\ contexts'[context'].made.state = d.st.id
               /\ contexts'[context'].made.viewport = d.vp.id]_vars

\* Launch and capture requests, one at a time, some with an overlay that
\* gives the default viewport another size.
SpecResize ==
  /\ InitController(0) /\ run = NoRun
  /\ ~currentConfig.command
  /\ scope = [SessionScope EXCEPT !.made = TRUE,
                                  !.overlays = Overlays \cup {OvResize}]
  /\ [][NextScreens]_vars

\* C39: the width and height of the shot of a capture request that is
\* answered well are the size the page had when the screenshot was taken.
ShotSizeIsPageSize ==
  \A tid \in Tasks :
    LET t == tasks[tid]
    IN (t.op = "capture" /\ t.pc = "done" /\ t.resp = "200") =>
         /\ t.vp.width = t.shot.width
         /\ t.vp.height = t.shot.height

\* C40: while a recording is active, every step of the session keeps the
\* steps buffered, in their order, at the beginning of the buffer, until the
\* step of a stopRecording request that returns them; and a startRecording
\* request that fails leaves the recording as it was when the request came.
StepsKeptUntilStop ==
  [][/\ recordingFlow.active =>
          \/ /\ recordingFlow'.active
             /\ IsPrefix(recordingFlow.steps, recordingFlow'.steps)
          \/ \E tid \in Tasks :
               /\ Completes(tid) /\ tasks'[tid].op = "recordStop"
               /\ stopRecording(Ctl).flow.steps = recordingFlow.steps
     /\ \A tid \in Tasks :
          (/\ Completes(tid) /\ tasks'[tid].op = "recordStart"
           /\ tasks'[tid].err # None) =>
            recordingFlow' = Before(tid).recordingFlow]_vars

====
